---- MODULE Spec2Model ----
(***************************************************************************)
(* Timeline and mixing engine of PodcastFactory.                           *)
(*                                                                         *)
(*   AudioMixer     (components/audio-mixer/AudioMixer.ts): the timeline   *)
(*                  of clips, track allocation, move/duplicate/split/      *)
(*                  delete.                                                *)
(*   AudioVideoSync (services/video-processing/AudioVideoSync.ts): the     *)
(*                  mixing of the clips into one stereo buffer, with       *)
(*                  fades and headroom normalization.                      *)
(*   VideoExporter  (services/video-processing/VideoExporter.ts): the      *)
(*                  export jobs and their status.                          *)
(*                                                                         *)
(* JavaScript numbers are modelled as exact extended rationals <<n, d>>:   *)
(* d > 0 is the finite value n/d in lowest terms, <<1,0>> is +Infinity,    *)
(* <<-1,0>> is -Infinity and <<0,0>> is NaN.  Rounding of the binary       *)
(* floating-point formats is modelled only where a property is about it:   *)
(* the pixel/time round trip is computed in IEEE 754 binary64.             *)
(*                                                                         *)
(* The specifications share the variables:                                 *)
(*   Spec          the timeline under the user's operations;               *)
(*   SpecAlloc     getAvailableTrackIndex on every occupancy of the lanes; *)
(*   SpecMix       mixAudioTracks on lists of synced tracks;               *)
(*   SpecView      zoom and scroll of the timeline view;                   *)
(*   SpecGen       generateVideoWithAudio with sources that fail to load;  *)
(*   SpecExport    exportAudioAsWAV and getAudioVisualizationData;         *)
(*   SpecRoundTrip timeToPixel and pixelToTime applied after one another;  *)
(*   SpecAsync     generateVideoWithCurrentAudio while the user edits the  *)
(*                 timeline between the awaits of the export;              *)
(*   SpecJobs      the jobs of VideoExporter under exportVideo, cancelJob  *)
(*                 and the end of processExport.                           *)
(***************************************************************************)
EXTENDS Integers, Sequences, FiniteSets, TLC

----------------------------------------------------------------------------
(* Numbers *)

IAbs(a) == IF a < 0 THEN -a ELSE a

ISign(a) == IF a < 0 THEN -1 ELSE IF a = 0 THEN 0 ELSE 1

RECURSIVE GCD(_, _)
GCD(a, b) == IF b = 0 THEN a ELSE GCD(b, a % b)

\* the number n/d: lowest terms, positive denominator; x/0 is an infinity
\* or NaN
Num(n, d) ==
  IF d = 0 THEN <<ISign(n), 0>>
  ELSE LET g == GCD(IAbs(n), IAbs(d))
           s == ISign(d)
       IN  <<(s * n) \div g, (s * d) \div g>>

Int2Num(k) == <<k, 1>>

NaN == <<0, 0>>
Infinity == <<1, 0>>
NegInfinity == <<-1, 0>>
Zero == <<0, 1>>
One == <<1, 1>>

IsNaN(x) == x = NaN
IsFinite(x) == x[2] # 0

Neg(x) == <<-x[1], x[2]>>

\* x + y
Add(x, y) ==
  IF IsNaN(x) \/ IsNaN(y) THEN NaN
  ELSE IF ~IsFinite(x) /\ ~IsFinite(y) THEN (IF x = y THEN x ELSE NaN)
  ELSE IF ~IsFinite(x) THEN x
  ELSE IF ~IsFinite(y) THEN y
  ELSE Num(x[1] * y[2] + y[1] * x[2], x[2] * y[2])

\* x - y
Sub(x, y) == Add(x, Neg(y))

\* x * y  (0 * Infinity is NaN)
Mul(x, y) == Num(x[1] * y[1], x[2] * y[2])

\* x / y  (x / 0 is an infinity of the sign of x, 0 / 0 is NaN)
Div(x, y) ==
  IF IsNaN(x) \/ IsNaN(y) THEN NaN
  ELSE IF y[1] < 0 THEN Mul(Neg(x), <<y[2], -y[1]>>)
  ELSE Mul(x, <<y[2], y[1]>>)

\* x < y  (false when either is NaN)
Lt(x, y) ==
  IF IsNaN(x) \/ IsNaN(y) THEN FALSE
  ELSE IF ~IsFinite(x) /\ ~IsFinite(y) THEN x[1] < y[1]
  ELSE x[1] * y[2] < y[1] * x[2]

Gt(x, y) == Lt(y, x)

\* x <= y  (false when either is NaN)
Le(x, y) == ~IsNaN(x) /\ ~IsNaN(y) /\ ~Lt(y, x)

\* Math.max / Math.min / Math.abs: NaN when an argument is NaN
MathMax(x, y) == IF IsNaN(x) \/ IsNaN(y) THEN NaN ELSE IF Lt(x, y) THEN y ELSE x

MathMin(x, y) == IF IsNaN(x) \/ IsNaN(y) THEN NaN ELSE IF Lt(y, x) THEN y ELSE x

MathAbs(x) == <<IAbs(x[1]), x[2]>>

\* Math.floor / Math.ceil of a finite number, as an integer
MathFloor(x) == x[1] \div x[2]

MathCeil(x) == -((-x[1]) \div x[2])

\* Math.max(...seq.map(f)): maximum of a sequence of numbers (-Infinity if empty)
RECURSIVE MaxOfSeq(_)
MaxOfSeq(s) == IF s = <<>> THEN NegInfinity ELSE MathMax(Head(s), MaxOfSeq(Tail(s)))

----------------------------------------------------------------------------
(* Bounds and environment *)

\* most clips on the timeline
MaxClips == 2

\* largest value of the millisecond clock Date.now()
MaxNow == 1

\* moves keep startTime at or below this many seconds
MaxStartTime == 1

\* most tracks in one call of mixAudioTracks
MaxMixClips == 2

\* a clip is split only while the halves' times have a denominator up to this
MaxDenominator == 2

\* a drag event moves the pointer by at most this many pixels
MaxDeltaX == 1

\* x - dragStartX of a mousemove event: the pointer's displacement since the
\* last drag event (dragStartX itself is not kept)
DeltaXs == (-MaxDeltaX)..MaxDeltaX

\* width of the timeline canvas element, in pixels
CanvasWidth == 300

\* sample rate of the AudioContext that decodes the files, in Hz
ContextSampleRate == 2

\* trackIndex is optional in AudioClip; an absent index is written -1
Undefined == -1

\* selectedTrackId / dragTrackId when null
Null == -1

----------------------------------------------------------------------------
(* Audio buffers *)

\* the files a user can add, and the AudioBuffer each decodes to
Files == {"a"}

AudioBufferOf(channels, sampleRate) ==
  [numberOfChannels |-> Len(channels), sampleRate |-> sampleRate,
   length |-> Len(channels[1]), channelData |-> channels]

\* AudioBuffer.duration
BufferDuration(buffer) == Num(buffer.length, buffer.sampleRate)

\* number of samples of the long file: 280 seconds at the context's rate
LongFileSamples == 560

DecodeAudioData(file) ==
  IF file = "a"
  THEN AudioBufferOf(<< << <<1,1>>, <<-1,2>>, <<1,4>>, <<-1,1>> >> >>, ContextSampleRate)
  ELSE IF file = "long"
  THEN AudioBufferOf(<< [i \in 1..LongFileSamples |-> Zero] >>, ContextSampleRate)
  ELSE AudioBufferOf(<< << <<1,2>> >>, << <<-1,4>> >> >>, ContextSampleRate)

----------------------------------------------------------------------------
(* AudioVideoSync: mixing *)

getDefaultSettings ==
  [syncMode |-> "auto", audioFadeIn |-> <<1, 2>>, audioFadeOut |-> <<1, 2>>,
   videoStartOffset |-> Zero, audioStartOffset |-> Zero]

\* the gain of a clip at currentTime seconds after its start
calculateVolumeAtTime(currentTime, totalDuration, baseVolume, st) ==
  LET faded == IF Lt(currentTime, st.audioFadeIn)
               THEN Mul(baseVolume, Div(currentTime, st.audioFadeIn))
               ELSE baseVolume
      fadeOutStart == Sub(totalDuration, st.audioFadeOut)
      fadeOutProgress == Div(Sub(currentTime, fadeOutStart), st.audioFadeOut)
      volume == IF Gt(currentTime, fadeOutStart)
                THEN Mul(faded, Sub(One, fadeOutProgress))
                ELSE faded
  IN  MathMax(Zero, MathMin(One, volume))

\* the largest |sample| of a channel, starting from maxSample
RECURSIVE PeakOfChannel(_, _)
PeakOfChannel(channelData, maxSample) ==
  IF channelData = <<>> THEN maxSample
  ELSE PeakOfChannel(Tail(channelData), MathMax(maxSample, MathAbs(Head(channelData))))

\* the peak level across all channels of a buffer
RECURSIVE PeakOfChannels(_, _)
PeakOfChannels(channels, maxSample) ==
  IF channels = <<>> THEN maxSample
  ELSE PeakOfChannels(Tail(channels), PeakOfChannel(Head(channels), maxSample))

PeakLevel(buffer) == PeakOfChannels(buffer.channelData, Zero)

Headroom == Num(95, 100)

normalizeAudioBuffer(buffer) ==
  LET maxSample == PeakLevel(buffer)
  IN  IF Gt(maxSample, Headroom)
      THEN LET normalizationFactor == Div(Headroom, maxSample)
           IN  [buffer EXCEPT !.channelData =
                  [c \in 1..Len(buffer.channelData) |->
                     [i \in 1..Len(buffer.channelData[c]) |->
                        Mul(buffer.channelData[c][i], normalizationFactor)]]]
      ELSE buffer

\* audioContext.createBuffer: a zero-filled buffer
createBuffer(numberOfChannels, length, sampleRate) ==
  [status |-> "ok", numberOfChannels |-> numberOfChannels, sampleRate |-> sampleRate,
   length |-> length,
   channelData |-> [c \in 1..numberOfChannels |-> [i \in 1..length |-> Zero]]]

\* the result of a mix that threw
MixError == [status |-> "error", numberOfChannels |-> 0, sampleRate |-> 0,
             length |-> 0, channelData |-> <<>>]

\* no mix was made yet
NoBuffer == [status |-> "none", numberOfChannels |-> 0, sampleRate |-> 0,
             length |-> 0, channelData |-> <<>>]

\* MixTrackInto with the samples stored (=) instead of added (+=)
MixTrackInto_store(output, track, sampleRate, totalSamples, st) ==
  LET startSample == MathFloor(Mul(track.startTime, Int2Num(sampleRate)))
      trackSamples == track.audioBuffer.length
      inputLeft == track.audioBuffer.channelData[1]
      inputRight == IF track.audioBuffer.numberOfChannels > 1
                    THEN track.audioBuffer.channelData[2]
                    ELSE inputLeft
      Volume(i) == calculateVolumeAtTime(Num(i, sampleRate), track.audioClip.duration,
                                         track.volume, st)
      Mixed(channel, input) ==
        [p \in 1..totalSamples |->
           LET outputIndex == p - 1
               i == outputIndex - startSample
           IN  IF i >= 0 /\ i < trackSamples /\ outputIndex >= 0 /\ outputIndex < totalSamples
               THEN Mul(input[i + 1], Volume(i))
               ELSE channel[p]]
  IN  [output EXCEPT !.channelData =
         <<Mixed(output.channelData[1], inputLeft), Mixed(output.channelData[2], inputRight)>>]

\* the samples of one track added into the output (the inner loop of
\* mixAudioTracks); output index n is stored at position n + 1
MixTrackInto(output, track, sampleRate, totalSamples, st) ==
  LET startSample == MathFloor(Mul(track.startTime, Int2Num(sampleRate)))
      trackSamples == track.audioBuffer.length
      inputLeft == track.audioBuffer.channelData[1]
      inputRight == IF track.audioBuffer.numberOfChannels > 1
                    THEN track.audioBuffer.channelData[2]
                    ELSE inputLeft
      Volume(i) == calculateVolumeAtTime(Num(i, sampleRate), track.audioClip.duration,
                                         track.volume, st)
      Mixed(channel, input) ==
        [p \in 1..totalSamples |->
           LET outputIndex == p - 1
               i == outputIndex - startSample
           IN  IF i >= 0 /\ i < trackSamples /\ outputIndex >= 0 /\ outputIndex < totalSamples
               THEN Add(channel[p], Mul(input[i + 1], Volume(i)))
               ELSE channel[p]]
  IN  [output EXCEPT !.channelData =
         <<Mixed(output.channelData[1], inputLeft), Mixed(output.channelData[2], inputRight)>>]

\* MixTracksFrom with only the first of the tracks added into the output
MixTracksFrom_firstOnly(output, tracks, k, sampleRate, totalSamples, st) ==
  IF k > Len(tracks) THEN output
  ELSE MixTrackInto(output, tracks[k], sampleRate, totalSamples, st)

\* the tracks k..Len(syncedTracks) added into the output, in list order
RECURSIVE MixTracksFrom(_, _, _, _, _, _)
MixTracksFrom(output, tracks, k, sampleRate, totalSamples, st) ==
  IF k > Len(tracks) THEN output
  ELSE MixTracksFrom(MixTrackInto(output, tracks[k], sampleRate, totalSamples, st),
                     tracks, k + 1, sampleRate, totalSamples, st)

\* MixedBeforeNormalize with the length rounded down
MixedBeforeNormalize_floor(tracks, st) ==
  LET totalDuration == MaxOfSeq([k \in 1..Len(tracks) |-> tracks[k].endTime])
      sampleRate == tracks[1].audioBuffer.sampleRate
      numberOfChannels == 2
      totalSamples == MathFloor(Mul(totalDuration, Int2Num(sampleRate)))
  IN  MixTracksFrom(createBuffer(numberOfChannels, totalSamples, sampleRate),
                    tracks, 1, sampleRate, totalSamples, st)

\* the output buffer before normalization
MixedBeforeNormalize(tracks, st) ==
  LET totalDuration == MaxOfSeq([k \in 1..Len(tracks) |-> tracks[k].endTime])
      sampleRate == tracks[1].audioBuffer.sampleRate
      numberOfChannels == 2
      totalSamples == MathCeil(Mul(totalDuration, Int2Num(sampleRate)))
  IN  MixTracksFrom(createBuffer(numberOfChannels, totalSamples, sampleRate),
                    tracks, 1, sampleRate, totalSamples, st)

mixAudioTracks(tracks, st) ==
  IF Len(tracks) = 0 THEN MixError
  ELSE normalizeAudioBuffer(MixedBeforeNormalize(tracks, st))

\* what prepareAudioTracks pushes for a clip whose source was fetched and decoded
SyncedTrack(audioClip, st) ==
  [audioClip |-> audioClip,
   audioBuffer |-> DecodeAudioData(audioClip.filePath),
   startTime |-> Add(audioClip.startTime, st.audioStartOffset),
   endTime |-> Add(audioClip.endTime, st.audioStartOffset),
   volume |-> audioClip.volume]

\* prepareAudioTracks: the synced tracks of the clips k..Len(clips) whose
\* index is in ok (the clips whose source could be fetched and decoded)
\* PrepareFrom with the loop left at the first clip whose source fails
RECURSIVE PrepareFrom_abort(_, _, _, _)
PrepareFrom_abort(clips, k, ok, st) ==
  IF k > Len(clips) THEN <<>>
  ELSE IF k \in ok THEN <<SyncedTrack(clips[k], st)>> \o PrepareFrom_abort(clips, k + 1, ok, st)
  ELSE <<>>

RECURSIVE PrepareFrom(_, _, _, _)
PrepareFrom(clips, k, ok, st) ==
  IF k > Len(clips) THEN <<>>
  ELSE IF k \in ok THEN <<SyncedTrack(clips[k], st)>> \o PrepareFrom(clips, k + 1, ok, st)
  ELSE PrepareFrom(clips, k + 1, ok, st)

prepareAudioTracks(clips, ok, st) == PrepareFrom(clips, 1, ok, st)

\* calculateVideoDuration without the start offset of the video
calculateVideoDuration_noOffset(clips, st) ==
  IF Len(clips) = 0 THEN Zero
  ELSE MaxOfSeq([k \in 1..Len(clips) |-> clips[k].endTime])

calculateVideoDuration(clips, st) ==
  IF Len(clips) = 0 THEN Zero
  ELSE LET maxEndTime == MaxOfSeq([k \in 1..Len(clips) |-> clips[k].endTime])
       IN  Add(maxEndTime, st.videoStartOffset)

----------------------------------------------------------------------------
(* AudioMixer: state *)

VARIABLES
  audioTracks,      \* AudioClip[]: the clips of the timeline, in list order
  selectedTrackId,  \* id of the selected clip, or Null
  isDragging,       \* a drag is in progress
  dragTrackId,      \* id of the dragged clip, or Null
  scrollX,          \* horizontal scroll offset, pixels
  maxScrollX,       \* largest horizontal scroll offset
  timelineWidth,    \* total timeline duration in seconds
  zoomLevel,        \* zoom factor
  trackIndexResult, \* the value a call of getAvailableTrackIndex returned
  now,              \* Date.now()
  lastOp,           \* the operation that produced this state
  settings,         \* AudioVideoSync.settings
  syncedTracks,     \* SyncedAudioTrack[]: the argument of mixAudioTracks
  mixedBuffer,      \* the buffer mixAudioTracks returned
  audioBuffer,      \* the argument of exportAudioAsWAV / getAudioVisualizationData
  arrayBuffer,      \* the bytes of the Blob exportAudioAsWAV returned
  visualizationData, \* the values getAudioVisualizationData returned
  conversion,       \* the argument and the result of a pixel/time round trip
  videoDuration,    \* the value calculateVideoDuration returned, <<>> before the call
  exportPc,         \* where generateVideoWithAudio stands: "idle", "await", "done", "failed"
  exportIndex,      \* number of elements the loop of prepareAudioTracks has taken
  exportCurrent,    \* the clip the loop of prepareAudioTracks is waiting for
  exportLog,        \* the clips whose fetch and decode ended, each with its outcome
  timelineHistory,  \* the timelines the mixer held since the export began
  jobs,             \* VideoExporter.jobs, with the promise each job waits for
  cancelResult      \* <<v>> for the value v the last call of cancelJob returned

mixerVars == <<audioTracks, selectedTrackId, isDragging, dragTrackId,
               scrollX, maxScrollX, timelineWidth, zoomLevel, trackIndexResult>>

vars == <<audioTracks, selectedTrackId, isDragging, dragTrackId,
          scrollX, maxScrollX, timelineWidth, zoomLevel, trackIndexResult,
          now, lastOp, settings, syncedTracks, mixedBuffer,
          audioBuffer, arrayBuffer, visualizationData, conversion,
          videoDuration, exportPc, exportIndex, exportCurrent, exportLog,
          timelineHistory, jobs, cancelResult>>

exportVars == <<audioBuffer, arrayBuffer, visualizationData>>

\* the state of a running export that no operation of the timeline touches
runVars == <<exportPc, exportIndex, exportLog, jobs, cancelResult>>

\* what a running export holds of the live timeline
liveVars == <<timelineHistory, exportCurrent>>

syncVars == <<settings, syncedTracks, mixedBuffer, exportVars, conversion,
              videoDuration, runVars>>

\* no round trip was made yet
NoConversion == <<>>

\* the clip slot of a loop that waits for no clip
NoClip == [index |-> 0, clip |-> <<>>]

\* no export was started yet
NoExportRun ==
  /\ videoDuration = <<>>
  /\ exportPc = "idle"
  /\ exportIndex = 0
  /\ exportCurrent = NoClip
  /\ exportLog = <<>>
  /\ timelineHistory = {}
  /\ jobs = <<>>
  /\ cancelResult = <<>>

maxTracks == 12

\* the floor of the timeline duration, and the margin kept after the last clip
TimelineFloor == 300

TimelineMargin == 30

----------------------------------------------------------------------------
(* AudioMixer: helpers *)

\* index of the first clip with this id, 0 if none (Array.findIndex + 1)
FindIndex(tracks, id) ==
  IF \E i \in 1..Len(tracks) : tracks[i].id = id
  THEN CHOOSE i \in 1..Len(tracks) :
         /\ tracks[i].id = id
         /\ \A j \in 1..(i - 1) : tracks[j].id # id
  ELSE 0

\* t.trackIndex || 0
TrackIndexOrZero(t) == IF t.trackIndex = Undefined THEN 0 ELSE t.trackIndex

\* getAvailableTrackIndex with the search started at index 1
getAvailableTrackIndex_from1(tracks) ==
  LET usedTracks == {TrackIndexOrZero(tracks[i]) : i \in 1..Len(tracks)}
      free == {i \in 1..(maxTracks - 1) : i \notin usedTracks}
  IN  IF free # {}
      THEN CHOOSE i \in free : \A j \in free : i <= j
      ELSE 0

\* smallest index in 0..maxTracks-1 that no clip uses; 0 if all are used
getAvailableTrackIndex(tracks) ==
  LET usedTracks == {TrackIndexOrZero(tracks[i]) : i \in 1..Len(tracks)}
      free == {i \in 0..(maxTracks - 1) : i \notin usedTracks}
  IN  IF free # {}
      THEN CHOOSE i \in free : \A j \in free : i <= j
      ELSE 0

timeToPixel(time, tw, zoom) ==
  Mul(Mul(Div(time, tw), Int2Num(CanvasWidth)), zoom)

pixelToTime(pixel, tw, zoom) ==
  Mul(Div(pixel, Mul(Int2Num(CanvasWidth), zoom)), tw)

getTimePerPixel(tw, zoom) == Div(tw, Mul(Int2Num(CanvasWidth), zoom))

\* updateScrollLimits: the new timelineWidth
ScrollLimitsWidth(tracks, tw) ==
  IF Len(tracks) = 0 THEN tw
  ELSE LET maxEndTime == MaxOfSeq([i \in 1..Len(tracks) |-> tracks[i].endTime])
       IN  MathMax(Int2Num(TimelineFloor), Add(maxEndTime, Int2Num(TimelineMargin)))

\* updateScrollLimits: the new maxScrollX
ScrollLimitsMax(tracks, tw, zoom) ==
  IF Len(tracks) = 0 THEN Zero
  ELSE LET totalTimelinePixels == timeToPixel(ScrollLimitsWidth(tracks, tw), ScrollLimitsWidth(tracks, tw), zoom)
       IN  MathMax(Zero, Sub(totalTimelinePixels, Int2Num(CanvasWidth)))

updateScrollLimits(tracks) ==
  /\ timelineWidth' = ScrollLimitsWidth(tracks, timelineWidth)
  /\ maxScrollX' = ScrollLimitsMax(tracks, timelineWidth, zoomLevel)

\* updateScrollLimits called after zoomLevel was set to zoom
updateScrollLimitsAt(tracks, zoom) ==
  /\ timelineWidth' = ScrollLimitsWidth(tracks, timelineWidth)
  /\ maxScrollX' = ScrollLimitsMax(tracks, timelineWidth, zoom)

----------------------------------------------------------------------------
(* AudioMixer: operations *)

Init ==
  /\ audioTracks = <<>>
  /\ selectedTrackId = Null
  /\ isDragging = FALSE
  /\ dragTrackId = Null
  /\ scrollX = Zero
  /\ maxScrollX = Zero
  /\ timelineWidth = Int2Num(TimelineFloor)
  /\ zoomLevel = One
  /\ trackIndexResult = Undefined
  /\ now = 0
  /\ lastOp = "init"
  /\ settings = getDefaultSettings
  /\ syncedTracks = <<>>
  /\ mixedBuffer = NoBuffer
  /\ audioBuffer = NoBuffer
  /\ arrayBuffer = <<>>
  /\ visualizationData = <<>>
  /\ conversion = NoConversion
  /\ NoExportRun

\* the clock advances
Tick ==
  /\ now < MaxNow
  /\ now' = now + 1
  /\ lastOp' = "event"
  /\ UNCHANGED syncVars
  /\ UNCHANGED mixerVars

\* loadAudioFile, after the file has been decoded
NewClip(file, tracks, clock) ==
  LET buffer == DecodeAudioData(file)
  IN  [id |-> clock,
       filePath |-> file,
       duration |-> BufferDuration(buffer),
       startTime |-> Zero,
       endTime |-> BufferDuration(buffer),
       volume |-> One,
       trackIndex |-> getAvailableTrackIndex(tracks)]

loadAudioFile(file) ==
  /\ Len(audioTracks) < MaxClips
  /\ audioTracks' = Append(audioTracks, NewClip(file, audioTracks, now))
  /\ UNCHANGED trackIndexResult
  /\ updateScrollLimits(audioTracks')
  /\ lastOp' = "load"
  /\ UNCHANGED syncVars
  /\ UNCHANGED <<selectedTrackId, isDragging, dragTrackId, scrollX, zoomLevel, now>>

\* the clip a pointer event hits: a clip of the list, or 0 for none
\* (getTrackAtPosition; the pixel geometry is not modelled)
Hits == 0..Len(audioTracks)

handleCanvasClick(hit) ==
  /\ ~isDragging
  /\ selectedTrackId' = (IF hit # 0 THEN audioTracks[hit].id ELSE Null)
  /\ lastOp' = "event"
  /\ UNCHANGED syncVars
  /\ UNCHANGED <<audioTracks, isDragging, dragTrackId, scrollX,
                 maxScrollX, timelineWidth, zoomLevel, trackIndexResult, now>>

handleRightClick(hit) ==
  /\ ~isDragging
  /\ hit # 0
  /\ selectedTrackId' = audioTracks[hit].id
  /\ lastOp' = "event"
  /\ UNCHANGED syncVars
  /\ UNCHANGED <<audioTracks, isDragging, dragTrackId, scrollX,
                 maxScrollX, timelineWidth, zoomLevel, trackIndexResult, now>>

handleMouseDown(hit) ==
  /\ ~isDragging
  /\ hit # 0
  /\ isDragging' = TRUE
  /\ dragTrackId' = audioTracks[hit].id
  /\ selectedTrackId' = audioTracks[hit].id
  /\ lastOp' = "event"
  /\ UNCHANGED syncVars
  /\ UNCHANGED <<audioTracks, scrollX, maxScrollX, timelineWidth, zoomLevel, trackIndexResult, now>>

\* MovedClip without the clamp of the start time at 0
MovedClip_noClamp(track, deltaX, tw, zoom) ==
  LET timePerPixel == getTimePerPixel(tw, zoom)
      deltaTime == Mul(Int2Num(deltaX), timePerPixel)
      newStartTime == Add(track.startTime, deltaTime)
      duration == Sub(track.endTime, track.startTime)
  IN  [track EXCEPT !.startTime = newStartTime,
                    !.endTime = Add(newStartTime, duration)]

\* the clip after a drag step of deltaX pixels
MovedClip(track, deltaX, tw, zoom) ==
  LET timePerPixel == getTimePerPixel(tw, zoom)
      deltaTime == Mul(Int2Num(deltaX), timePerPixel)
      newStartTime == MathMax(Zero, Add(track.startTime, deltaTime))
      duration == Sub(track.endTime, track.startTime)
  IN  [track EXCEPT !.startTime = newStartTime,
                    !.endTime = Add(newStartTime, duration)]

handleMouseMove(deltaX) ==
  LET index == FindIndex(audioTracks, dragTrackId)
  IN  IF isDragging /\ dragTrackId # Null /\ index # 0
      THEN LET moved == MovedClip(audioTracks[index], deltaX, timelineWidth, zoomLevel)
           IN  /\ Le(moved.startTime, Int2Num(MaxStartTime))
               /\ audioTracks' = [audioTracks EXCEPT ![index] = moved]
               /\ updateScrollLimits(audioTracks')
               /\ lastOp' = "move"
               /\ UNCHANGED syncVars
               /\ UNCHANGED <<selectedTrackId, isDragging, dragTrackId, scrollX, zoomLevel,
                             trackIndexResult, now>>
      ELSE /\ lastOp' = "event"
           /\ UNCHANGED <<mixerVars, now, syncVars>>

handleMouseUp ==
  /\ isDragging
  /\ isDragging' = FALSE
  /\ dragTrackId' = Null
  /\ lastOp' = "event"
  /\ UNCHANGED syncVars
  /\ UNCHANGED <<audioTracks, selectedTrackId, scrollX, maxScrollX,
                 timelineWidth, zoomLevel, trackIndexResult, now>>

\* Array.splice(index, 1): the list without its index-th element
RemoveAt(tracks, index) ==
  [i \in 1..(Len(tracks) - 1) |-> IF i < index THEN tracks[i] ELSE tracks[i + 1]]

\* the list deleteTrack(trackId) leaves
DeletedTracks(tracks, trackId) ==
  IF FindIndex(tracks, trackId) # 0 THEN RemoveAt(tracks, FindIndex(tracks, trackId))
  ELSE tracks

deleteTrack(trackId) ==
  LET index == FindIndex(audioTracks, trackId)
  IN  /\ index # 0
      /\ audioTracks' = DeletedTracks(audioTracks, trackId)
      /\ selectedTrackId' = Null
      /\ lastOp' = "delete"
      /\ UNCHANGED syncVars
      /\ UNCHANGED <<isDragging, dragTrackId, scrollX, maxScrollX,
                     timelineWidth, zoomLevel, trackIndexResult, now>>

\* DuplicatedClip placed behind the original, with the end time left at
\* the original's
DuplicatedClip_behind(track, tracks, clock) ==
  [track EXCEPT !.id = clock,
                !.startTime = Add(track.endTime, One),
                !.endTime = track.endTime,
                !.trackIndex = getAvailableTrackIndex(tracks)]

DuplicatedClip(track, tracks, clock) ==
  [track EXCEPT !.id = clock,
                !.startTime = track.startTime,
                !.endTime = track.endTime,
                !.trackIndex = getAvailableTrackIndex(tracks)]

duplicateTrack(track) ==
  /\ Len(audioTracks) < MaxClips
  /\ audioTracks' = Append(audioTracks, DuplicatedClip(track, audioTracks, now))
  /\ selectedTrackId' = now
  /\ UNCHANGED trackIndexResult
  /\ updateScrollLimits(audioTracks')
  /\ lastOp' = "duplicate"
  /\ UNCHANGED syncVars
  /\ UNCHANGED <<isDragging, dragTrackId, scrollX, zoomLevel, now>>

SplitPoint(track) == Add(track.startTime, Div(track.duration, Int2Num(2)))

\* FirstHalf with the end time left at the original's
FirstHalf_fullWindow(track, clock) ==
  [track EXCEPT !.id = clock,
                !.duration = Sub(SplitPoint(track), track.startTime)]

FirstHalf(track, clock) ==
  [track EXCEPT !.id = clock,
                !.endTime = SplitPoint(track),
                !.duration = Sub(SplitPoint(track), track.startTime)]

\* SecondHalf left on the lane of the original
SecondHalf_sameTrack(track, tracks, clock) ==
  [track EXCEPT !.id = clock + 1,
                !.startTime = SplitPoint(track),
                !.duration = Sub(track.endTime, SplitPoint(track))]

SecondHalf(track, tracks, clock) ==
  [track EXCEPT !.id = clock + 1,
                !.startTime = SplitPoint(track),
                !.duration = Sub(track.endTime, SplitPoint(track)),
                !.trackIndex = getAvailableTrackIndex(tracks)]

\* Array.splice(index, 1, a, b): the index-th element replaced by a and b
ReplaceAtByTwo(tracks, index, a, b) ==
  [i \in 1..(Len(tracks) + 1) |->
     IF i < index THEN tracks[i]
     ELSE IF i = index THEN a
     ELSE IF i = index + 1 THEN b
     ELSE tracks[i - 1]]

splitTrack(track) ==
  LET index == FindIndex(audioTracks, track.id)
  IN  /\ Len(audioTracks) < MaxClips
      /\ SplitPoint(track)[2] <= MaxDenominator
      /\ Div(track.duration, Int2Num(2))[2] <= MaxDenominator
      /\ audioTracks' = ReplaceAtByTwo(audioTracks, index, FirstHalf(track, now),
                                       SecondHalf(track, audioTracks, now))
      /\ selectedTrackId' = now
      /\ UNCHANGED trackIndexResult
      /\ updateScrollLimits(audioTracks')
      /\ lastOp' = "split"
      /\ UNCHANGED syncVars
      /\ UNCHANGED <<isDragging, dragTrackId, scrollX, zoomLevel, now>>

\* handleContextMenuAction: the selected clip is the first one with the selected id
SelectedIndex == FindIndex(audioTracks, selectedTrackId)

contextMenuDelete ==
  /\ ~isDragging
  /\ SelectedIndex # 0
  /\ deleteTrack(audioTracks[SelectedIndex].id)

contextMenuDuplicate ==
  /\ ~isDragging
  /\ SelectedIndex # 0
  /\ duplicateTrack(audioTracks[SelectedIndex])

contextMenuSplit ==
  /\ ~isDragging
  /\ SelectedIndex # 0
  /\ splitTrack(audioTracks[SelectedIndex])

clearProject ==
  /\ ~isDragging
  /\ audioTracks' = <<>>
  /\ selectedTrackId' = Null
  /\ lastOp' = "clear"
  /\ UNCHANGED syncVars
  /\ UNCHANGED <<isDragging, dragTrackId, scrollX, maxScrollX,
                 timelineWidth, zoomLevel, trackIndexResult, now>>

Next ==
  \/ Tick /\ UNCHANGED liveVars
  \/ \E file \in Files : loadAudioFile(file) /\ UNCHANGED liveVars
  \/ \E hit \in Hits : handleCanvasClick(hit) /\ UNCHANGED liveVars
  \/ \E hit \in Hits : handleRightClick(hit) /\ UNCHANGED liveVars
  \/ \E hit \in Hits : handleMouseDown(hit) /\ UNCHANGED liveVars
  \/ \E deltaX \in DeltaXs : handleMouseMove(deltaX) /\ UNCHANGED liveVars
  \/ handleMouseUp /\ UNCHANGED liveVars
  \/ contextMenuDelete /\ UNCHANGED liveVars
  \/ contextMenuDuplicate /\ UNCHANGED liveVars
  \/ contextMenuSplit /\ UNCHANGED liveVars
  \/ clearProject /\ UNCHANGED liveVars

Spec == Init /\ [][Next]_vars

----------------------------------------------------------------------------
(* The track allocator on arbitrary lane occupancies *)

\* one clip on every lane of S, in lane order
RECURSIVE TracksOn(_)
TracksOn(S) ==
  IF S = {} THEN <<>>
  ELSE LET k == CHOOSE i \in S : \A j \in S : i <= j
           \* a loaded clip of file "a" on lane k
           ClipOnTrack == [id |-> k, filePath |-> "a",
                           duration |-> BufferDuration(DecodeAudioData("a")),
                           startTime |-> Zero,
                           endTime |-> BufferDuration(DecodeAudioData("a")),
                           volume |-> One,
                           trackIndex |-> k]
       IN  <<ClipOnTrack>> \o TracksOn(S \ {k})

InitAlloc ==
  /\ \E S \in SUBSET (0..(maxTracks - 1)) : audioTracks = TracksOn(S)
  /\ selectedTrackId = Null
  /\ isDragging = FALSE
  /\ dragTrackId = Null
  /\ scrollX = Zero
  /\ maxScrollX = Zero
  /\ timelineWidth = Int2Num(TimelineFloor)
  /\ zoomLevel = One
  /\ trackIndexResult = Undefined
  /\ now = 0
  /\ lastOp = "init"
  /\ settings = getDefaultSettings
  /\ syncedTracks = <<>>
  /\ mixedBuffer = NoBuffer
  /\ audioBuffer = NoBuffer
  /\ arrayBuffer = <<>>
  /\ visualizationData = <<>>
  /\ conversion = NoConversion
  /\ NoExportRun

\* a call of getAvailableTrackIndex on the current timeline
allocate ==
  /\ lastOp = "init"
  /\ trackIndexResult' = getAvailableTrackIndex(audioTracks)
  /\ lastOp' = "allocate"
  /\ UNCHANGED syncVars
  /\ UNCHANGED <<audioTracks, selectedTrackId, isDragging, dragTrackId,
                 scrollX, maxScrollX, timelineWidth, zoomLevel, now>>

NextAlloc == allocate /\ UNCHANGED liveVars

SpecAlloc == InitAlloc /\ [][NextAlloc]_vars

\* the lanes some clip of the timeline sits on
OccupiedTracks == {audioTracks[i].trackIndex : i \in 1..Len(audioTracks)}

\* C6: the allocator returns the smallest index of 0..maxTracks-1 that is the
\* track index of no clip, returns 0 when every index is occupied, and never
\* returns an index at or above maxTracks
C6_AllocatorLowestFree ==
  lastOp = "allocate" =>
    /\ trackIndexResult \in 0..(maxTracks - 1)
    /\ (\E k \in 0..(maxTracks - 1) : k \notin OccupiedTracks) =>
         /\ trackIndexResult \notin OccupiedTracks
         /\ \A k \in 0..(trackIndexResult - 1) : k \in OccupiedTracks
    /\ (\A k \in 0..(maxTracks - 1) : k \in OccupiedTracks) => trackIndexResult = 0

\* every lane is occupied and the allocator fell back to lane 0
C6_Witness ==
  /\ lastOp = "allocate"
  /\ OccupiedTracks = 0..(maxTracks - 1)
  /\ trackIndexResult = 0

----------------------------------------------------------------------------
(* mixAudioTracks on arbitrary synced tracks *)

FadeLengths == {Zero, <<1, 2>>, One}

\* what prepareAudioTracks pushes for a clip of the given window and gain
SyncedTrackOf(buffer, start, length, volume) ==
  [audioClip |-> [id |-> 0, filePath |-> "a", duration |-> length,
                  startTime |-> start, endTime |-> Add(start, length),
                  volume |-> volume, trackIndex |-> 0],
   audioBuffer |-> buffer,
   startTime |-> start,
   endTime |-> Add(start, length),
   volume |-> volume]

\* a three-channel source of three samples, placed on a window that ends
\* between two samples
SurroundTrack ==
  SyncedTrackOf(AudioBufferOf(<< << <<1,4>>, <<-1,2>>, <<1,1>> >>,
                                 << <<-1,4>>, <<1,2>>, <<-1,1>> >>,
                                 << <<1,1>>, <<1,1>>, <<1,1>> >> >>, ContextSampleRate),
                Zero, <<3, 4>>, One)

\* the tracks of a mix: the mono buffer of file "a" or a stereo buffer of
\* three samples, both at the rate of the decoding context, on a placement
\* window <<startTime, length>>, at a gain of 0, 1/2 or 1; and SurroundTrack
MixTracks ==
  LET MixBuffers ==
        { DecodeAudioData("a"),
          AudioBufferOf(<< << <<1,2>>, <<1,1>>, <<-1,4>> >>,
                           << <<-1,1>>, <<1,4>>, <<1,2>> >> >>, ContextSampleRate) }
      MixWindows == {<<Zero, <<1, 2>>>>, <<Zero, One>>, <<<<1, 2>>, One>>}
      MixVolumes == {Zero, <<1, 2>>, One}
  IN  {SyncedTrackOf(b, w[1], w[2], v) : b \in MixBuffers, w \in MixWindows, v \in MixVolumes}
        \cup {SurroundTrack}

InitMix ==
  /\ audioTracks = <<>>
  /\ selectedTrackId = Null
  /\ isDragging = FALSE
  /\ dragTrackId = Null
  /\ scrollX = Zero
  /\ maxScrollX = Zero
  /\ timelineWidth = Int2Num(TimelineFloor)
  /\ zoomLevel = One
  /\ trackIndexResult = Undefined
  /\ now = 0
  /\ lastOp = "init"
  /\ \E fade \in FadeLengths :
       settings = [getDefaultSettings EXCEPT !.audioFadeIn = fade, !.audioFadeOut = fade]
  /\ \E n \in 0..MaxMixClips : syncedTracks \in [1..n -> MixTracks]
  /\ mixedBuffer = NoBuffer
  /\ audioBuffer = NoBuffer
  /\ arrayBuffer = <<>>
  /\ visualizationData = <<>>
  /\ conversion = NoConversion
  /\ NoExportRun

\* mix with the source buffer of the first track normalized in place
mix_inPlace ==
  /\ lastOp = "init"
  /\ mixedBuffer' = mixAudioTracks(syncedTracks, settings)
  /\ syncedTracks' = [k \in 1..Len(syncedTracks) |->
                        IF k = 1
                        THEN [syncedTracks[k] EXCEPT !.audioBuffer =
                                [normalizeAudioBuffer(
                                   [syncedTracks[k].audioBuffer EXCEPT !.channelData =
                                      [c \in 1..Len(@) |-> [i \in 1..Len(@[c]) |->
                                         Mul(@[c][i], syncedTracks[k].volume)]]])
                                 EXCEPT !.length = syncedTracks[k].audioBuffer.length]]
                        ELSE syncedTracks[k]]
  /\ lastOp' = "mix"
  /\ UNCHANGED <<mixerVars, now, videoDuration, runVars, liveVars, settings, exportVars, conversion>>

\* a call of mixAudioTracks
mix ==
  /\ lastOp = "init"
  /\ mixedBuffer' = mixAudioTracks(syncedTracks, settings)
  /\ lastOp' = "mix"
  /\ UNCHANGED <<mixerVars, now, videoDuration, runVars, liveVars, settings, syncedTracks, exportVars, conversion>>

NextMix == mix

SpecMix == InitMix /\ [][NextMix]_vars

----------------------------------------------------------------------------
(* Properties of the mix *)

\* every sample of both channels of a buffer
SamplesOf(buffer) ==
  {buffer.channelData[c][i] : c \in 1..Len(buffer.channelData), i \in 1..buffer.length}

\* the synced tracks all have the sample rate of the first one
UniformSampleRate(tracks) ==
  \A k \in 1..Len(tracks) : tracks[k].audioBuffer.sampleRate = tracks[1].audioBuffer.sampleRate

\* C1: the peak absolute sample of a mix is at most max(0.95, unscaled peak):
\* when the unscaled peak over both channels exceeds 0.95 every sample is the
\* unscaled one times 0.95/peak (so the peak is exactly 0.95), and when it is
\* at most 0.95 every sample is the unscaled one.
C1_NormalizedPeak ==
  (lastOp = "mix" /\ mixedBuffer.status = "ok") =>
    LET raw == MixedBeforeNormalize(syncedTracks, settings)
        \* the buffer with every sample multiplied by factor
        ScaledBy(buffer, factor) ==
          [buffer EXCEPT !.channelData =
             [c \in 1..Len(buffer.channelData) |->
                [i \in 1..Len(buffer.channelData[c]) |->
                   Mul(buffer.channelData[c][i], factor)]]]
    IN  \E peak \in {MathAbs(x) : x \in SamplesOf(raw)} :
          /\ \A x \in SamplesOf(raw) : Le(MathAbs(x), peak)
          /\ \A y \in SamplesOf(mixedBuffer) : Le(MathAbs(y), MathMax(Headroom, peak))
          /\ Gt(peak, Headroom) =>
               /\ mixedBuffer = ScaledBy(raw, Div(Headroom, peak))
               /\ \E y \in SamplesOf(mixedBuffer) : MathAbs(y) = Headroom
          /\ Le(peak, Headroom) => mixedBuffer = raw

\* a mix with a sample that is not a number next to samples above 0.95
C1_Failure ==
  /\ lastOp = "mix"
  /\ mixedBuffer.status = "ok"
  /\ \E y \in SamplesOf(mixedBuffer) : IsNaN(y)
  /\ \E y \in SamplesOf(mixedBuffer) : Gt(MathAbs(y), Headroom)

C3_ReadsAtMostWindow ==
  (lastOp = "mix" /\ Len(syncedTracks) >= 1) =>
    LET sampleRate == syncedTracks[1].audioBuffer.sampleRate
        \* the track with its source cut to the samples of its window
        TruncatedToWindow(track) ==
          LET window == MathCeil(Mul(Sub(track.endTime, track.startTime),
                                     Int2Num(sampleRate)))
              count == IF window < track.audioBuffer.length THEN window
                       ELSE track.audioBuffer.length
          IN  [track EXCEPT !.audioBuffer.length = count,
                            !.audioBuffer.channelData =
                               [c \in 1..track.audioBuffer.numberOfChannels |->
                                  SubSeq(track.audioBuffer.channelData[c], 1, count)]]
    IN  mixAudioTracks([k \in 1..Len(syncedTracks) |->
                          TruncatedToWindow(syncedTracks[k])], settings)
          = mixedBuffer

----------------------------------------------------------------------------
(* Properties of the timeline operations *)

\* updateSettings({audioFadeIn: 0, audioFadeOut: 0})
ZeroFadeSettings == [getDefaultSettings EXCEPT !.audioFadeIn = Zero, !.audioFadeOut = Zero]

\* generateVideoWithAudio up to the mix: every clip of the timeline is
\* prepared (all sources load) and the prepared tracks are mixed
TimelineMix(clips, st) ==
  mixAudioTracks(prepareAudioTracks(clips, 1..Len(clips), st), st)

\* the midpoint of the placement window of a clip
WindowMidpoint(track) ==
  Add(track.startTime, Div(Sub(track.endTime, track.startTime), Int2Num(2)))

\* C4: for a timeline of one clip, the mix after a split of that clip, with
\* fade-in = fade-out = 0, is sample for sample the mix before the split.
C4_SplitRemixIdentical ==
  [][(lastOp' = "split" /\ Len(audioTracks) = 1) =>
       TimelineMix(audioTracks', ZeroFadeSettings) = TimelineMix(audioTracks, ZeroFadeSettings)]_vars

\* window, gain, source and duration of a clip
ClipContent(track) ==
  [startTime |-> track.startTime, endTime |-> track.endTime, volume |-> track.volume,
   filePath |-> track.filePath, duration |-> track.duration]

\* how many clips of the list have each content
ContentCount(tracks) ==
  [c \in {ClipContent(tracks[i]) : i \in 1..Len(tracks)} |->
     Cardinality({i \in 1..Len(tracks) : ClipContent(tracks[i]) = c})]

\* C5: right after a clip c was added to a timeline T, deleting c leaves
\* the clips of T, with their windows, gains, sources and durations, and
\* so the mix of T.
C5_DeleteAfterAdd ==
  (lastOp = "load") =>
    LET c == audioTracks[Len(audioTracks)]
        T == SubSeq(audioTracks, 1, Len(audioTracks) - 1)
        deleted == DeletedTracks(audioTracks, c.id)
    IN  /\ ContentCount(deleted) = ContentCount(T)
        /\ TimelineMix(deleted, settings) = TimelineMix(T, settings)

C9_SplitAtMidpoint ==
  [][lastOp' = "split" =>
       LET k == FindIndex(audioTracks, selectedTrackId)
           original == audioTracks[k]
       IN  /\ k # 0
           /\ Len(audioTracks') = Len(audioTracks) + 1
           /\ \A j \in 1..Len(audioTracks) :
                /\ j < k => audioTracks'[j] = audioTracks[j]
                /\ j > k => audioTracks'[j + 1] = audioTracks[j]
           /\ audioTracks'[k].startTime = original.startTime
           /\ audioTracks'[k].endTime = WindowMidpoint(original)
           /\ audioTracks'[k + 1].startTime = WindowMidpoint(original)
           /\ audioTracks'[k + 1].endTime = original.endTime
           /\ audioTracks'[k + 1].id # original.id
           /\ audioTracks'[k + 1].trackIndex = getAvailableTrackIndex(audioTracks)]_vars

\* C10: a duplicate adds one clip, with an id that no clip of the timeline
\* has, on the track the allocator gives for the timeline before it, with
\* the original's startTime, endTime and volume; the clips that were there
\* are unchanged.
C10_DuplicateAddsFreshClip ==
  [][lastOp' = "duplicate" =>
       LET k == FindIndex(audioTracks, selectedTrackId)
           original == audioTracks[k]
           copy == audioTracks'[Len(audioTracks')]
       IN  /\ k # 0
           /\ Len(audioTracks') = Len(audioTracks) + 1
           /\ \A j \in 1..Len(audioTracks) : audioTracks'[j] = audioTracks[j]
           /\ \A j \in 1..Len(audioTracks) : audioTracks[j].id # copy.id
           /\ copy.trackIndex = getAvailableTrackIndex(audioTracks)
           /\ copy.startTime = original.startTime
           /\ copy.endTime = original.endTime
           /\ copy.volume = original.volume]_vars

\* C11: no two clips of the timeline have the same id, whatever loads,
\* duplicates, splits and deletes led to the state and at whatever readings
\* of the clock.
C11_UniqueIds ==
  \A i, j \in 1..Len(audioTracks) : audioTracks[i].id = audioTracks[j].id => i = j

\* C24: the duration field of every clip of the timeline is the decoded
\* duration of the clip's source file, whatever moves, duplicates and splits
\* led to the state (the halves of a split and the duplicates included).
C24_DurationIsSourceDuration ==
  \A i \in 1..Len(audioTracks) :
     audioTracks[i].duration
       = BufferDuration(DecodeAudioData(audioTracks[i].filePath))

----------------------------------------------------------------------------
(* The view of the timeline: zoom and scroll *)

\* most clips on the timeline while the view is zoomed and scrolled
MaxViewClips == 1

\* deltaX (or deltaY) of a wheel event
WheelDeltas == {-100, 100}

\* e.clientX - rect.left of a wheel event
MouseXs == {0, 150}

MinZoom == Num(1, 10)

MaxZoom == Int2Num(5)

\* handleScroll without shiftKey: horizontal scrolling
handleScroll(delta) ==
  /\ scrollX' = MathMax(Zero, MathMin(maxScrollX,
                   Add(scrollX, Div(Mul(Int2Num(delta), Int2Num(50)), Int2Num(100)))))
  /\ lastOp' = "view"
  /\ UNCHANGED syncVars
  /\ UNCHANGED <<audioTracks, selectedTrackId, isDragging, dragTrackId,
                 maxScrollX, timelineWidth, zoomLevel, trackIndexResult, now>>

\* handleZoom: wheel with ctrlKey or metaKey.  The pointer's time is read
\* after zoomLevel was changed, and mapped back after updateScrollLimits
handleZoom(deltaY, mouseX) ==
  LET newZoom == IF deltaY < 0 THEN MathMin(MaxZoom, Add(zoomLevel, Num(1, 10)))
                 ELSE MathMax(MinZoom, Sub(zoomLevel, Num(1, 10)))
      timeAtMouse == pixelToTime(Add(scrollX, Int2Num(mouseX)), timelineWidth, newZoom)
      newMousePixel == timeToPixel(timeAtMouse, ScrollLimitsWidth(audioTracks, timelineWidth), newZoom)
  IN  /\ zoomLevel' = newZoom
      /\ IF newZoom # zoomLevel
         THEN /\ updateScrollLimitsAt(audioTracks, newZoom)
              /\ scrollX' = MathMax(Zero, MathMin(maxScrollX', Sub(newMousePixel, Int2Num(mouseX))))
         ELSE UNCHANGED <<scrollX, maxScrollX, timelineWidth>>
      /\ lastOp' = "zoom"
      /\ UNCHANGED syncVars
      /\ UNCHANGED <<audioTracks, selectedTrackId, isDragging, dragTrackId,
                     trackIndexResult, now>>

handleKeyDown(key) ==
  /\ scrollX' = CASE key = "ArrowLeft" -> MathMax(Zero, Sub(scrollX, Int2Num(50)))
                  [] key = "ArrowRight" -> MathMin(maxScrollX, Add(scrollX, Int2Num(50)))
                  [] key = "Home" -> Zero
                  [] key = "End" -> maxScrollX
  /\ lastOp' = "view"
  /\ UNCHANGED syncVars
  /\ UNCHANGED <<audioTracks, selectedTrackId, isDragging, dragTrackId,
                 maxScrollX, timelineWidth, zoomLevel, trackIndexResult, now>>

zoomIn ==
  /\ zoomLevel' = MathMin(MaxZoom, Add(zoomLevel, Num(2, 10)))
  /\ updateScrollLimitsAt(audioTracks, zoomLevel')
  /\ lastOp' = "view"
  /\ UNCHANGED syncVars
  /\ UNCHANGED <<audioTracks, selectedTrackId, isDragging, dragTrackId,
                 scrollX, trackIndexResult, now>>

zoomOut ==
  /\ zoomLevel' = MathMax(MinZoom, Sub(zoomLevel, Num(2, 10)))
  /\ updateScrollLimitsAt(audioTracks, zoomLevel')
  /\ lastOp' = "view"
  /\ UNCHANGED syncVars
  /\ UNCHANGED <<audioTracks, selectedTrackId, isDragging, dragTrackId,
                 scrollX, trackIndexResult, now>>

resetZoom ==
  /\ zoomLevel' = One
  /\ scrollX' = Zero
  /\ updateScrollLimitsAt(audioTracks, One)
  /\ lastOp' = "view"
  /\ UNCHANGED syncVars
  /\ UNCHANGED <<audioTracks, selectedTrackId, isDragging, dragTrackId,
                 trackIndexResult, now>>

\* a file is added while the view is in use
loadInView ==
  /\ Len(audioTracks) < MaxViewClips
  /\ loadAudioFile("long")

NextView ==
  \/ loadInView /\ UNCHANGED liveVars
  \/ \E hit \in Hits : handleRightClick(hit) /\ UNCHANGED liveVars
  \/ contextMenuDelete /\ UNCHANGED liveVars
  \/ clearProject /\ UNCHANGED liveVars
  \/ \E delta \in WheelDeltas : handleScroll(delta) /\ UNCHANGED liveVars
  \/ \E deltaY \in WheelDeltas, mouseX \in MouseXs : handleZoom(deltaY, mouseX) /\ UNCHANGED liveVars
  \/ \E key \in {"ArrowLeft", "ArrowRight", "Home", "End"} : handleKeyDown(key) /\ UNCHANGED liveVars
  \/ zoomIn /\ UNCHANGED liveVars
  \/ zoomOut /\ UNCHANGED liveVars
  \/ resetZoom /\ UNCHANGED liveVars

SpecView == Init /\ [][NextView]_vars

\* C12: the timeline duration is max(timelineFloor, largest endTime of the
\* clips), and timelineFloor when there are no clips.
C12_TimelineDurationDerived ==
  timelineWidth =
    IF Len(audioTracks) = 0 THEN Int2Num(TimelineFloor)
    ELSE MathMax(Int2Num(TimelineFloor),
                 MaxOfSeq([i \in 1..Len(audioTracks) |-> audioTracks[i].endTime]))

\* C19: a wheel zoom that changes the zoom level and leaves the new scroll
\* offset strictly between 0 and maxScrollX keeps the time shown at the
\* pointer's pixel: the time at scrollX + mouseX before the zoom is the time
\* at scrollX' + mouseX after it.
C19_PointerTimePreserved ==
  [][\A deltaY \in WheelDeltas, mouseX \in MouseXs :
       ( /\ handleZoom(deltaY, mouseX)
         /\ zoomLevel' # zoomLevel
         /\ Lt(Zero, scrollX')
         /\ Lt(scrollX', maxScrollX') )
       => pixelToTime(Add(scrollX', Int2Num(mouseX)), timelineWidth', zoomLevel')
          = pixelToTime(Add(scrollX, Int2Num(mouseX)), timelineWidth, zoomLevel)]_vars

\* C20: after any zoom, scroll and timeline operations the zoom level is in
\* [0.1, 5] and the scroll offset is in [0, maxScroll], maxScroll =
\* max(0, timeToPixel(timelineDuration) - canvasWidth) on the current state.
C20_ZoomAndScrollInRange ==
  LET maxScroll == MathMax(Zero, Sub(timeToPixel(timelineWidth, timelineWidth, zoomLevel),
                                     Int2Num(CanvasWidth)))
  IN  /\ Le(MinZoom, zoomLevel)
      /\ Le(zoomLevel, MaxZoom)
      /\ Le(Zero, scrollX)
      /\ Le(scrollX, maxScroll)

----------------------------------------------------------------------------
(* generateVideoWithAudio on timelines whose sources may fail to load *)

\* most clips of a timeline that is rendered
MaxGenClips == 2

\* clips of file "a" as the timeline operations leave them: as loaded, dragged
\* by a second, and the two halves of a split
InitGen ==
  /\ LET loaded == NewClip("a", <<>>, 0)
         GenClips == { loaded,
                       MovedClip(loaded, 1, Int2Num(TimelineFloor), One),
                       FirstHalf(loaded, 0),
                       SecondHalf(loaded, <<loaded>>, 0) }
     IN  \E n \in 0..MaxGenClips :
           \E clips \in [1..n -> GenClips] :
             audioTracks = [i \in 1..n |-> [clips[i] EXCEPT !.id = i, !.trackIndex = i - 1]]
  /\ selectedTrackId = Null
  /\ isDragging = FALSE
  /\ dragTrackId = Null
  /\ scrollX = Zero
  /\ maxScrollX = Zero
  /\ timelineWidth = Int2Num(TimelineFloor)
  /\ zoomLevel = One
  /\ trackIndexResult = Undefined
  /\ now = 0
  /\ lastOp = "init"
  /\ \E fade \in FadeLengths, offset \in {Zero, One} :
       settings = [getDefaultSettings EXCEPT !.audioFadeIn = fade, !.audioFadeOut = fade,
                                             !.videoStartOffset = offset]
  /\ syncedTracks = <<>>
  /\ mixedBuffer = NoBuffer
  /\ audioBuffer = NoBuffer
  /\ arrayBuffer = <<>>
  /\ visualizationData = <<>>
  /\ conversion = NoConversion
  /\ NoExportRun

\* generateVideoWithAudio up to the duration of the video, with no other
\* event during the call, when the sources of the clips with an index in ok
\* can be fetched and decoded and the others cannot; a mix that throws makes
\* the call throw before the duration is calculated
generateVideoWithAudio(ok) ==
  /\ lastOp = "init"
  /\ syncedTracks' = prepareAudioTracks(audioTracks, ok, settings)
  /\ mixedBuffer' = mixAudioTracks(syncedTracks', settings)
  /\ videoDuration' = IF mixedBuffer'.status = "ok"
                      THEN calculateVideoDuration(audioTracks, settings)
                      ELSE videoDuration
  /\ lastOp' = "generate"
  /\ UNCHANGED <<mixerVars, now, runVars, liveVars, settings, exportVars, conversion>>

\* a call of calculateVideoDuration on the clips of the timeline
videoDurationOfTimeline ==
  /\ lastOp = "init"
  /\ videoDuration' = calculateVideoDuration(audioTracks, settings)
  /\ lastOp' = "duration"
  /\ UNCHANGED <<mixerVars, now, runVars, liveVars, settings, syncedTracks, mixedBuffer,
                 exportVars, conversion>>

NextGen ==
  \/ \E ok \in SUBSET (1..Len(audioTracks)) : generateVideoWithAudio(ok)
  \/ videoDurationOfTimeline

SpecGen == InitGen /\ [][NextGen]_vars

\* C13: when only the sources of some clips can be prepared, the result is
\* the mix of the timeline of exactly those clips, as if all its sources
\* loaded; when there is no such clip (empty timeline, or every source
\* fails) the call fails and gives no buffer.
C13_FailedSourcesSkipped ==
  [][\A ok \in SUBSET (1..Len(audioTracks)) :
       LET \* the clips of the list with an index in ok, in list order
           RECURSIVE ClipsIn(_, _, _)
           ClipsIn(clips, k, kept) ==
             IF k > Len(clips) THEN <<>>
             ELSE IF k \in kept THEN <<clips[k]>> \o ClipsIn(clips, k + 1, kept)
             ELSE ClipsIn(clips, k + 1, kept)
       IN
       generateVideoWithAudio(ok) =>
         /\ Len(syncedTracks') = Cardinality(ok)
         /\ ok = {} => mixedBuffer' = MixError
         /\ ok # {} =>
              /\ mixedBuffer'.status = "ok"
              /\ mixedBuffer' = TimelineMix(ClipsIn(audioTracks, 1, ok), settings)]_vars

\* a timeline of two clips of which only the second could be prepared, and
\* the mix of that clip alone
C13_Witness ==
  /\ lastOp = "generate"
  /\ Len(audioTracks) = 2
  /\ Len(syncedTracks) = 1
  /\ syncedTracks[1].audioClip = audioTracks[2]
  /\ audioTracks[1] # [audioTracks[2] EXCEPT !.id = 1, !.trackIndex = 0]
  /\ mixedBuffer.status = "ok"
  /\ mixedBuffer = TimelineMix(<<audioTracks[2]>>, settings)

\* every source failed: no buffer
C13_WitnessAllFailed ==
  /\ lastOp = "generate"
  /\ Len(audioTracks) = 2
  /\ syncedTracks = <<>>
  /\ mixedBuffer = MixError

\* C21: the duration calculateVideoDuration returns is 0 for an empty list
\* of clips and otherwise the largest endTime of the clips plus the start
\* offset of the video, whatever the order and the start times of the clips.
C21_VideoDurationIsMaxEnd ==
  (lastOp \in {"duration", "generate"} /\ videoDuration # <<>>) =>
    IF audioTracks = <<>> THEN videoDuration = Zero
    ELSE \E i \in 1..Len(audioTracks) :
           /\ \A j \in 1..Len(audioTracks) :
                 Le(audioTracks[j].endTime, audioTracks[i].endTime)
           /\ videoDuration = Add(audioTracks[i].endTime, settings.videoStartOffset)

\* the duration of a timeline whose first clip ends last and whose second
\* clip starts later than the first, with a start offset of 1 s
C21_Witness ==
  /\ lastOp = "duration"
  /\ Len(audioTracks) = 2
  /\ audioTracks[1].endTime = Int2Num(2)
  /\ audioTracks[2].endTime = One
  /\ settings.videoStartOffset = One
  /\ videoDuration = Int2Num(3)

\* the duration of the empty timeline
C21_WitnessEmpty ==
  /\ lastOp = "duration"
  /\ audioTracks = <<>>
  /\ settings.videoStartOffset = One
  /\ videoDuration = Zero

----------------------------------------------------------------------------
(* The layout of the master buffer *)

\* the stereo master the tracks add up to, before normalization
ExpectedMaster(tracks, st) ==
  LET sampleRate == tracks[1].audioBuffer.sampleRate
      totalDuration == MaxOfSeq([k \in 1..Len(tracks) |-> tracks[k].endTime])
      length == MathCeil(Mul(totalDuration, Int2Num(sampleRate)))
      \* the channel of a source that goes to output channel c (1 left, 2 right)
      SourceChannel(buffer, c) ==
        IF buffer.numberOfChannels = 1 THEN buffer.channelData[1] ELSE buffer.channelData[c]
      \* what one track adds to sample p (from 0) of output channel c
      Contribution(track, c, p) ==
        LET i == p - MathFloor(Mul(track.startTime, Int2Num(sampleRate)))
        IN  IF i >= 0 /\ i < track.audioBuffer.length
            THEN Mul(SourceChannel(track.audioBuffer, c)[i + 1],
                     calculateVolumeAtTime(Num(i, sampleRate), track.audioClip.duration,
                                           track.volume, st))
            ELSE Zero
      \* the sum of the contributions of the tracks k..Len(tracks)
      RECURSIVE ContributionsFrom(_, _, _)
      ContributionsFrom(k, c, p) ==
        IF k > Len(tracks) THEN Zero
        ELSE Add(Contribution(tracks[k], c, p), ContributionsFrom(k + 1, c, p))
  IN  [status |-> "ok", numberOfChannels |-> 2, sampleRate |-> sampleRate,
       length |-> length,
       channelData |-> [c \in 1..2 |-> [p \in 1..length |->
                          ContributionsFrom(1, c, p - 1)]]]

\* C22: before normalization, sample n of each channel of the master is the
\* sum, over the mixed tracks that have a source sample at n - startSample,
\* of that source sample times the gain at that local index, with
\* startSample = floor(startTime * sampleRate); the master is 0 where no
\* track has a source sample and has no sample outside 0 .. totalSamples - 1.
C22_MasterIsSumOfContributions ==
  (lastOp = "mix" /\ Len(syncedTracks) >= 1) =>
    LET master == MixedBeforeNormalize(syncedTracks, settings)
        sampleRate == syncedTracks[1].audioBuffer.sampleRate
        startSample(k) == MathFloor(Mul(syncedTracks[k].startTime, Int2Num(sampleRate)))
        Covering(n) ==
          {k \in 1..Len(syncedTracks) :
             /\ n - startSample(k) >= 0
             /\ n - startSample(k) < syncedTracks[k].audioBuffer.length}
    IN  /\ mixedBuffer = normalizeAudioBuffer(master)
        /\ master.channelData = ExpectedMaster(syncedTracks, settings).channelData
        /\ \A c \in 1..2 :
              /\ DOMAIN master.channelData[c] = 1..master.length
              /\ \A n \in 0..(master.length - 1) :
                    Covering(n) = {} => master.channelData[c][n + 1] = Zero

\* a track at gain 1 and a later track at gain 1/2 over a window of two
\* samples: the first sample is the first track's alone, the second is the
\* sum of both tracks' samples
C22_Witness ==
  /\ lastOp = "mix"
  /\ settings.audioFadeIn = Zero
  /\ Len(syncedTracks) = 2
  /\ syncedTracks[1].audioBuffer = DecodeAudioData("a")
  /\ syncedTracks[2].audioBuffer = DecodeAudioData("a")
  /\ syncedTracks[1].startTime = Zero
  /\ syncedTracks[1].endTime = One
  /\ syncedTracks[1].volume = One
  /\ syncedTracks[2].startTime = <<1, 2>>
  /\ syncedTracks[2].volume = <<1, 2>>
  /\ LET master == MixedBeforeNormalize(syncedTracks, settings)
     IN  /\ master.length = 3
         /\ master.channelData[1][1] = One
         /\ master.channelData[1][2] = Add(<<-1, 2>>, Mul(<<1, 2>>, One))

\* C23: the gain the mixer applies to the sample of a track at t seconds
\* after the track's start, with D the clip's duration and g its gain, is
\* g * t / fadeIn when t < fadeIn, otherwise g * (1 - (t - (D - fadeOut)) / fadeOut)
\* when t > D - fadeOut, otherwise g; and it lies in [0, g].
C23_GainIsPiecewiseFade ==
  lastOp = "mix" =>
    \A k \in 1..Len(syncedTracks) :
      \A i \in 0..(syncedTracks[k].audioBuffer.length - 1) :
        LET t == Num(i, syncedTracks[1].audioBuffer.sampleRate)
            D == syncedTracks[k].audioClip.duration
            g == syncedTracks[k].volume
            fadeIn == settings.audioFadeIn
            fadeOut == settings.audioFadeOut
            applied == calculateVolumeAtTime(t, D, g, settings)
        IN  /\ applied = IF Lt(t, fadeIn) THEN Div(Mul(g, t), fadeIn)
                         ELSE IF Gt(t, Sub(D, fadeOut))
                         THEN Mul(g, Sub(One, Div(Sub(t, Sub(D, fadeOut)), fadeOut)))
                         ELSE g
            /\ Le(Zero, applied)
            /\ Le(applied, g)

\* C27: a mix changes neither a field of a clip or of a track nor a sample
\* of a source buffer, also when the master is normalized: the list of
\* tracks after the mix is the list before it, and the master is a buffer of
\* its own.
C27_MixLeavesInputsUnchanged ==
  [][lastOp' = "mix" =>
       /\ syncedTracks' = syncedTracks
       /\ audioTracks' = audioTracks
       /\ settings' = settings
       /\ mixedBuffer = NoBuffer
       /\ mixedBuffer' # NoBuffer]_vars

\* a mix of two tracks that was scaled down by the normalization, the
\* source of the first track still with its peak of 1
C27_Witness ==
  /\ lastOp = "mix"
  /\ Len(syncedTracks) = 2
  /\ mixedBuffer.status = "ok"
  /\ Gt(PeakLevel(MixedBeforeNormalize(syncedTracks, settings)), Headroom)
  /\ PeakLevel(mixedBuffer) = Headroom
  /\ syncedTracks[1].volume = <<1, 2>>
  /\ PeakLevel(syncedTracks[1].audioBuffer) = One

\* C14: the master has two channels, the sample rate of the first track's
\* source and ceil(largest endTime * sampleRate) samples; a mono source goes
\* to both channels, a source of two or more channels gives channel 0 to the
\* left and channel 1 to the right and nothing else.
C14_MasterLayout ==
  (lastOp = "mix" /\ Len(syncedTracks) >= 1) =>
    LET sampleRate == syncedTracks[1].audioBuffer.sampleRate
        totalDuration == MaxOfSeq([k \in 1..Len(syncedTracks) |-> syncedTracks[k].endTime])
    IN  /\ mixedBuffer.status = "ok"
        /\ mixedBuffer.numberOfChannels = 2
        /\ Len(mixedBuffer.channelData) = 2
        /\ mixedBuffer.sampleRate = sampleRate
        /\ mixedBuffer.length = MathCeil(Mul(totalDuration, Int2Num(sampleRate)))
        /\ \A c \in 1..2 : Len(mixedBuffer.channelData[c]) = mixedBuffer.length
        /\ mixedBuffer = normalizeAudioBuffer(ExpectedMaster(syncedTracks, settings))

\* a mono track and the three-channel track mixed into a master whose length
\* was rounded up, with different left and right channels
C14_Witness ==
  /\ lastOp = "mix"
  /\ Len(syncedTracks) = 2
  /\ syncedTracks[1].audioBuffer.numberOfChannels = 1
  /\ syncedTracks[1].endTime = <<1, 2>>
  /\ syncedTracks[1].volume = One
  /\ syncedTracks[2] = SurroundTrack
  /\ mixedBuffer.numberOfChannels = 2
  /\ mixedBuffer.length = 2
  /\ mixedBuffer.channelData[1] # mixedBuffer.channelData[2]

----------------------------------------------------------------------------
(* AudioVideoSync: WAV export and waveform reduction *)

\* most frames of an exported buffer
MaxFrames == 3

\* largest width asked of getAudioVisualizationData
MaxWidth == 3

\* the samples of exported buffers: inside [-1, 1], outside it, and NaN
ExportSamples == << <<1, 2>>, <<-1, 3>>, <<3, 2>>, <<-2, 1>>, NaN >>

\* the exported buffers: mono and stereo buffers of 0..MaxFrames frames at
\* the context's rate and at 44100 Hz; the second channel holds in every
\* frame the sample after the first channel's in ExportSamples
ExportBuffers ==
  LET NextSample(x) ==
        LET k == CHOOSE i \in 1..Len(ExportSamples) : ExportSamples[i] = x
        IN  ExportSamples[(k % Len(ExportSamples)) + 1]
      BuffersOf(count) ==
        UNION { { AudioBufferOf(<<channel>>, rate),
                  AudioBufferOf(<<channel, [i \in 1..count |-> NextSample(channel[i])]>>, rate) } :
                channel \in [1..count -> {ExportSamples[i] : i \in 1..Len(ExportSamples)}],
                rate \in {ContextSampleRate, 44100} }
  IN  UNION { BuffersOf(count) : count \in 0..MaxFrames }

\* the bytes written at an offset of the view; offset n is position n + 1
SetBytes(view, offset, bytes) ==
  [i \in 1..Len(view) |->
     IF i > offset /\ i <= offset + Len(bytes) THEN bytes[i - offset] ELSE view[i]]

\* writeString: the char codes of the chunk id, one byte each
writeString(view, offset, string) ==
  SetBytes(view, offset,
           CASE string = "RIFF" -> <<82, 73, 70, 70>>
             [] string = "WAVE" -> <<87, 65, 86, 69>>
             [] string = "fmt " -> <<102, 109, 116, 32>>
             [] string = "data" -> <<100, 97, 116, 97>>)

\* setUint32(offset, value, false): most significant byte first
setUint32_bigEndian(view, offset, value) ==
  SetBytes(view, offset,
           <<(value \div 16777216) % 256, (value \div 65536) % 256,
             (value \div 256) % 256, value % 256>>)

\* DataView.setUint32(offset, value, true): the four low bytes of the value
\* (the value modulo 2^32), least significant first
setUint32(view, offset, value) ==
  SetBytes(view, offset,
           <<value % 256, (value \div 256) % 256,
             (value \div 65536) % 256, (value \div 16777216) % 256>>)

\* DataView.setUint16(offset, value, true): value modulo 2^16, little-endian
setUint16(view, offset, value) ==
  LET u == value % 65536
  IN  SetBytes(view, offset, <<u % 256, u \div 256>>)

\* a finite number rounded toward zero, as an integer
Trunc(x) == ISign(x[1]) * (IAbs(x[1]) \div x[2])

\* DataView.setInt16(offset, value, true): NaN and the infinities become 0,
\* other numbers are truncated and taken modulo 2^16 (two's complement)
setInt16(view, offset, value) ==
  LET u == IF IsFinite(value) THEN Trunc(value) % 65536 ELSE 0
  IN  SetBytes(view, offset, <<u % 256, u \div 256>>)

\* the PCM value without the clamp to [-1, 1]
PCMSample_noClamp(x) == Mul(x, Int2Num(32767))

\* the number handed to setInt16 for the sample x
PCMSample(x) ==
  Mul(MathMax(Int2Num(-1), MathMin(One, x)), Int2Num(32767))

\* the sample loop of exportAudioAsWAV from frame i, channel on: offset runs
\* over the frames, and within a frame over the channels
RECURSIVE WriteSamples(_, _, _, _, _)
WriteSamples(view, buffer, i, channel, offset) ==
  IF i >= buffer.length THEN view
  ELSE IF channel >= buffer.numberOfChannels
       THEN WriteSamples(view, buffer, i + 1, 0, offset)
       ELSE WriteSamples(setInt16(view, offset, PCMSample(buffer.channelData[channel + 1][i + 1])),
                         buffer, i, channel + 1, offset + 2)

\* the bytes of the Blob exportAudioAsWAV returns: the header and the
\* samples written into a new, zero-filled ArrayBuffer
exportAudioAsWAV(buffer) ==
  LET length == buffer.length
      numberOfChannels == buffer.numberOfChannels
      sampleRate == buffer.sampleRate
      v0 == [i \in 1..(44 + length * numberOfChannels * 2) |-> 0]
      v1 == writeString(v0, 0, "RIFF")
      v2 == setUint32(v1, 4, 36 + length * numberOfChannels * 2)
      v3 == writeString(v2, 8, "WAVE")
      v4 == writeString(v3, 12, "fmt ")
      v5 == setUint32(v4, 16, 16)
      v6 == setUint16(v5, 20, 1)
      v7 == setUint16(v6, 22, numberOfChannels)
      v8 == setUint32(v7, 24, sampleRate)
      v9 == setUint32(v8, 28, sampleRate * numberOfChannels * 2)
      v10 == setUint16(v9, 32, numberOfChannels * 2)
      v11 == setUint16(v10, 34, 16)
      v12 == writeString(v11, 36, "data")
      v13 == setUint32(v12, 40, length * numberOfChannels * 2)
  IN  WriteSamples(v13, buffer, 0, 0, 44)

\* getAudioVisualizationData with the window size rounded up
getAudioVisualizationData_ceil(buffer, width) ==
  LET channelData == buffer.channelData[1]
      samplesPerPixel == (Len(channelData) + width - 1) \div width
  IN  [k \in 1..width |->
         LET start == (k - 1) * samplesPerPixel
             end == start + samplesPerPixel
             last == IF end < Len(channelData) THEN end ELSE Len(channelData)
         IN  PeakOfChannel(SubSeq(channelData, start + 1, last), Zero)]

\* getAudioVisualizationData: per window of channel 0, Math.max folded over
\* the absolute samples, from 0
getAudioVisualizationData(buffer, width) ==
  LET channelData == buffer.channelData[1]
      samplesPerPixel == Len(channelData) \div width
  IN  [k \in 1..width |->
         LET start == (k - 1) * samplesPerPixel
             end == start + samplesPerPixel
             last == IF end < Len(channelData) THEN end ELSE Len(channelData)
         IN  PeakOfChannel(SubSeq(channelData, start + 1, last), Zero)]

InitExport ==
  /\ audioTracks = <<>>
  /\ selectedTrackId = Null
  /\ isDragging = FALSE
  /\ dragTrackId = Null
  /\ scrollX = Zero
  /\ maxScrollX = Zero
  /\ timelineWidth = Int2Num(TimelineFloor)
  /\ zoomLevel = One
  /\ trackIndexResult = Undefined
  /\ now = 0
  /\ lastOp = "init"
  /\ settings = getDefaultSettings
  /\ syncedTracks = <<>>
  /\ mixedBuffer = NoBuffer
  /\ audioBuffer \in ExportBuffers
  /\ arrayBuffer = <<>>
  /\ visualizationData = <<>>
  /\ conversion = NoConversion
  /\ NoExportRun

\* a call of exportAudioAsWAV
export ==
  /\ lastOp = "init"
  /\ arrayBuffer' = exportAudioAsWAV(audioBuffer)
  /\ lastOp' = "export"
  /\ UNCHANGED <<mixerVars, now, videoDuration, runVars, liveVars, settings, syncedTracks, mixedBuffer,
                 audioBuffer, visualizationData, conversion>>

\* a call of getAudioVisualizationData
visualize(width) ==
  /\ lastOp = "init"
  /\ visualizationData' = getAudioVisualizationData(audioBuffer, width)
  /\ lastOp' = "visualize"
  /\ UNCHANGED <<mixerVars, now, videoDuration, runVars, liveVars, settings, syncedTracks, mixedBuffer,
                 audioBuffer, arrayBuffer, conversion>>

NextExport ==
  \/ export
  \/ \E width \in 1..MaxWidth : visualize(width)

SpecExport == InitExport /\ [][NextExport]_vars

\* the unsigned little-endian number in the count bytes at an offset
RECURSIVE ReadUint(_, _, _)
ReadUint(bytes, offset, count) ==
  IF count = 0 THEN 0
  ELSE bytes[offset + 1] + 256 * ReadUint(bytes, offset + 1, count - 1)

\* C15: the WAV has 44 + frames*channels*2 bytes and the header RIFF,
\* 36 + dataBytes, WAVE, "fmt ", 16, format 1, channels, sample rate, byte
\* rate sampleRate*channels*2, block align channels*2, 16 bits, "data",
\* dataBytes, every number little-endian.
C15_WavHeader ==
  (lastOp = "export") =>
    LET channels == audioBuffer.numberOfChannels
        sampleRate == audioBuffer.sampleRate
        dataBytes == audioBuffer.length * channels * 2
    IN  /\ Len(arrayBuffer) = 44 + dataBytes
        /\ \A i \in 1..Len(arrayBuffer) : arrayBuffer[i] \in 0..255
        /\ SubSeq(arrayBuffer, 1, 4) = <<82, 73, 70, 70>>
        /\ ReadUint(arrayBuffer, 4, 4) = 36 + dataBytes
        /\ SubSeq(arrayBuffer, 9, 12) = <<87, 65, 86, 69>>
        /\ SubSeq(arrayBuffer, 13, 16) = <<102, 109, 116, 32>>
        /\ ReadUint(arrayBuffer, 16, 4) = 16
        /\ ReadUint(arrayBuffer, 20, 2) = 1
        /\ ReadUint(arrayBuffer, 22, 2) = channels
        /\ ReadUint(arrayBuffer, 24, 4) = sampleRate
        /\ ReadUint(arrayBuffer, 28, 4) = sampleRate * channels * 2
        /\ ReadUint(arrayBuffer, 32, 2) = channels * 2
        /\ ReadUint(arrayBuffer, 34, 2) = 16
        /\ SubSeq(arrayBuffer, 37, 40) = <<100, 97, 116, 97>>
        /\ ReadUint(arrayBuffer, 40, 4) = dataBytes

\* the export of a stereo buffer of three frames at 44100 Hz: 56 bytes, the
\* rate stored as 44 AC 00 00 and the byte rate 176400 as 10 B1 02 00
C15_Witness ==
  /\ lastOp = "export"
  /\ audioBuffer.numberOfChannels = 2
  /\ audioBuffer.length = 3
  /\ audioBuffer.sampleRate = 44100
  /\ Len(arrayBuffer) = 56
  /\ SubSeq(arrayBuffer, 25, 28) = <<68, 172, 0, 0>>
  /\ SubSeq(arrayBuffer, 29, 32) = <<16, 177, 2, 0>>
  /\ SubSeq(arrayBuffer, 41, 44) = <<12, 0, 0, 0>>

\* C16: the sample x of frame i, channel c is stored at offset
\* 44 + (i*channels + c)*2 as the little-endian signed 16-bit integer
\* trunc(clamp(x, -1, 1) * 32767), rounded toward zero, also for x outside
\* [-1, 1]; every stored value is within [-32767, 32767].
C16_PcmSamples ==
  LET \* the signed little-endian 16-bit number at an offset
      ReadInt16(bytes, offset) ==
        IF ReadUint(bytes, offset, 2) >= 32768 THEN ReadUint(bytes, offset, 2) - 65536
        ELSE ReadUint(bytes, offset, 2)
      \* x limited to [-1, 1]
      Clamp(x) == IF Lt(x, Int2Num(-1)) THEN Int2Num(-1) ELSE IF Gt(x, One) THEN One ELSE x
  IN
  (lastOp = "export") =>
    \A i \in 0..(audioBuffer.length - 1), c \in 0..(audioBuffer.numberOfChannels - 1) :
      LET x == audioBuffer.channelData[c + 1][i + 1]
          stored == ReadInt16(arrayBuffer, 44 + (i * audioBuffer.numberOfChannels + c) * 2)
      IN  /\ stored >= -32767
          /\ stored <= 32767
          /\ ~IsNaN(x) => stored = Trunc(Mul(Clamp(x), Int2Num(32767)))

\* a stereo export whose first frame is 3/2 left and -2 right, stored as
\* 32767 and -32767, and whose second frame is -1/3 left, stored as -10922
C16_Witness ==
  /\ lastOp = "export"
  /\ audioBuffer.numberOfChannels = 2
  /\ audioBuffer.length >= 2
  /\ audioBuffer.channelData[1][1] = <<3, 2>>
  /\ audioBuffer.channelData[2][1] = <<-2, 1>>
  /\ audioBuffer.channelData[1][2] = <<-1, 3>>
  /\ SubSeq(arrayBuffer, 45, 48) = <<255, 127, 1, 128>>
  /\ SubSeq(arrayBuffer, 49, 50) = <<86, 213>>

\* C17: the reduction to width values: value k is the largest absolute
\* sample of channel 0 over the indices [k*w, (k+1)*w), w = floor(length /
\* width) (0 for an empty window, NaN for a window holding NaN), the samples
\* from index width*w on are ignored, and the buffer is unchanged.
C17_VisualizationWindows ==
  [][\A width \in 1..MaxWidth :
       visualize(width) =>
         LET channelData == audioBuffer.channelData[1]
             w == audioBuffer.length \div width
         IN  /\ Len(visualizationData') = width
             /\ audioBuffer' = audioBuffer
             /\ \A k \in 0..(width - 1) :
                  LET window == {channelData[j + 1] : j \in (k * w)..((k + 1) * w - 1)}
                      value == visualizationData'[k + 1]
                  IN  IF \E x \in window : IsNaN(x) THEN IsNaN(value)
                      ELSE /\ \A x \in window : Le(MathAbs(x), value)
                           /\ window = {} => value = Zero
                           /\ window # {} => \E x \in window : value = MathAbs(x)]_vars

\* three samples reduced to two values: windows of one sample, the third
\* sample ignored although it is the largest
C17_Witness ==
  /\ lastOp = "visualize"
  /\ audioBuffer.length = 3
  /\ audioBuffer.channelData[1] = << <<1, 2>>, <<-1, 3>>, <<-2, 1>> >>
  /\ visualizationData = << <<1, 2>>, <<1, 3>> >>

\* more values asked than there are samples: all windows are empty
C17_WitnessShort ==
  /\ lastOp = "visualize"
  /\ audioBuffer.length = 2
  /\ visualizationData = <<Zero, Zero, Zero>>

----------------------------------------------------------------------------
(* timeToPixel and pixelToTime in the arithmetic of the program: IEEE 754
   binary64, round to nearest, ties to even.  A double is a mantissa of
   exactly 53 bits and an exponent, value mantissa * 2^exponent; mantissas
   are natural numbers written in digits of 15 bits, least significant first.
   The values here stay far from overflow and from the subnormal range. *)

\* largest pixel and largest time (seconds) converted back and forth
MaxPixel == 30

DigitBase == 32768

\* a natural number without leading zero digits
RECURSIVE BigNorm(_)
BigNorm(a) ==
  IF a = <<>> THEN <<>>
  ELSE IF a[Len(a)] = 0 THEN BigNorm(SubSeq(a, 1, Len(a) - 1))
  ELSE a

RECURSIVE BigOfInt(_)
BigOfInt(n) == IF n = 0 THEN <<>> ELSE <<n % DigitBase>> \o BigOfInt(n \div DigitBase)

DigitAt(a, i) == IF i >= 1 /\ i <= Len(a) THEN a[i] ELSE 0

BigAdd(a, b) ==
  LET RECURSIVE AddFrom(_, _)
      AddFrom(i, carry) ==
        IF i > Len(a) /\ i > Len(b)
        THEN IF carry = 0 THEN <<>> ELSE <<carry>>
        ELSE LET sum == DigitAt(a, i) + DigitAt(b, i) + carry
             IN  <<sum % DigitBase>> \o AddFrom(i + 1, sum \div DigitBase)
  IN  AddFrom(1, 0)

\* a - b for a >= b
BigSub(a, b) ==
  LET RECURSIVE SubFrom(_, _)
      SubFrom(i, borrow) ==
        IF i > Len(a) THEN <<>>
        ELSE LET diff == DigitAt(a, i) - DigitAt(b, i) - borrow
             IN  <<diff % DigitBase>> \o SubFrom(i + 1, IF diff < 0 THEN 1 ELSE 0)
  IN  BigNorm(SubFrom(1, 0))

BigLess(a, b) ==
  LET RECURSIVE LessAt(_)
      LessAt(i) ==
        IF i = 0 THEN FALSE
        ELSE IF a[i] # b[i] THEN a[i] < b[i]
        ELSE LessAt(i - 1)
  IN  IF Len(a) # Len(b) THEN Len(a) < Len(b) ELSE LessAt(Len(a))

BigMul(a, b) ==
  LET RECURSIVE MulDigitFrom(_, _, _)
      MulDigitFrom(digit, i, carry) ==
        IF i > Len(a)
        THEN IF carry = 0 THEN <<>> ELSE <<carry>>
        ELSE LET product == a[i] * digit + carry
             IN  <<product % DigitBase>> \o MulDigitFrom(digit, i + 1, product \div DigitBase)
      RECURSIVE MulFrom(_)
      MulFrom(i) ==
        IF i > Len(b) THEN <<>>
        ELSE BigAdd(MulDigitFrom(b[i], 1, 0), <<0>> \o MulFrom(i + 1))
  IN  BigNorm(MulFrom(1))

BigDouble(a) == BigAdd(a, a)

\* a shifted right by count bits
BigShiftRight(a, count) ==
  LET digits == count \div 15
      bits == count % 15
  IN  BigNorm([i \in 1..(Len(a) - digits) |->
                 (a[i + digits] \div (2 ^ bits))
                 + (DigitAt(a, i + digits + 1) % (2 ^ bits)) * (2 ^ (15 - bits))])

\* the number of bits of a
BigBits(a) ==
  LET RECURSIVE BitsOfDigit(_)
      BitsOfDigit(digit) == IF digit = 0 THEN 0 ELSE 1 + BitsOfDigit(digit \div 2)
  IN  IF a = <<>> THEN 0 ELSE 15 * (Len(a) - 1) + BitsOfDigit(a[Len(a)])

DoubleZero == [mantissa |-> <<>>, exponent |-> 0]

\* the double nearest to (mantissa + fraction) * 2^exponent, where the
\* fraction is below 1 and sticky tells whether it is above 0: round to
\* nearest, ties to even
RoundToDouble(mantissa, exponent, sticky) ==
  LET mantissaBits == 53
      shift == BigBits(mantissa) - mantissaBits
      \* a shifted left by count bits
      ShiftLeft(a, count) ==
        LET digits == count \div 15
            bits == count % 15
        IN  BigNorm([i \in 1..(Len(a) + digits + 1) |->
                       ((DigitAt(a, i - digits) * (2 ^ bits)) % DigitBase)
                       + (DigitAt(a, i - digits - 1) \div (2 ^ (15 - bits)))])
      \* bit number index of a, the lowest being bit 0
      Bit(a, index) == (DigitAt(a, index \div 15 + 1) \div (2 ^ (index % 15))) % 2
      \* the count lowest bits of a are all 0
      LowBitsZero(a, count) ==
        /\ \A i \in 1..(count \div 15) : DigitAt(a, i) = 0
        /\ DigitAt(a, count \div 15 + 1) % (2 ^ (count % 15)) = 0
      Odd(a) == a # <<>> /\ a[1] % 2 = 1
  IN  IF mantissa = <<>> THEN DoubleZero
      ELSE IF shift <= 0
           THEN [mantissa |-> ShiftLeft(mantissa, -shift), exponent |-> exponent + shift]
      ELSE LET kept == BigShiftRight(mantissa, shift)
               half == Bit(mantissa, shift - 1) = 1
               below == sticky \/ ~LowBitsZero(mantissa, shift - 1)
               rounded == IF half /\ (below \/ Odd(kept))
                          THEN BigAdd(kept, <<1>>) ELSE kept
           IN  IF BigBits(rounded) > mantissaBits
               THEN [mantissa |-> BigShiftRight(rounded, 1), exponent |-> exponent + shift + 1]
               ELSE [mantissa |-> rounded, exponent |-> exponent + shift]

\* x * y of two doubles
DoubleMul(x, y) ==
  IF x = DoubleZero \/ y = DoubleZero THEN DoubleZero
  ELSE RoundToDouble(BigMul(x.mantissa, y.mantissa), x.exponent + y.exponent, FALSE)

\* count more bits of the quotient of remainder / divisor, from
\* division = <<quotient, remainder>>
RECURSIVE DivideBits(_, _, _)
DivideBits(division, divisor, count) ==
  IF count = 0 THEN division
  ELSE IF BigLess(BigDouble(division[2]), divisor)
       THEN DivideBits(<<BigDouble(division[1]), BigDouble(division[2])>>,
                       divisor, count - 1)
       ELSE DivideBits(<<BigAdd(BigDouble(division[1]), <<1>>),
                         BigSub(BigDouble(division[2]), divisor)>>,
                       divisor, count - 1)

\* x / y of two doubles, y not zero: 56 bits of the quotient, then rounded
DoubleDiv(x, y) ==
  IF x = DoubleZero THEN DoubleZero
  ELSE LET first == IF BigLess(x.mantissa, y.mantissa)
                    THEN << <<>>, x.mantissa >>
                    ELSE << <<1>>, BigSub(x.mantissa, y.mantissa) >>
           second == DivideBits(first, y.mantissa, 14)
           third == DivideBits(second, y.mantissa, 14)
           fourth == DivideBits(third, y.mantissa, 14)
           division == DivideBits(fourth, y.mantissa, 13)
       IN  RoundToDouble(division[1], x.exponent - y.exponent - 55, division[2] # <<>>)

\* the double of a natural number below 2^31
DoubleOfInt(n) == RoundToDouble(BigOfInt(n), 0, FALSE)

\* the double of a positive number of the timeline state: the literal 0.1 is
\* the double nearest to 1/10
DoubleOf(x) ==
  IF x[2] = 1 THEN DoubleOfInt(x[1])
  ELSE DoubleDiv(DoubleOfInt(x[1]), DoubleOfInt(x[2]))

\* timeToPixel: (time / timelineWidth) * canvas.width * zoomLevel
timeToPixelDouble(time, tw, zoom) ==
  DoubleMul(DoubleMul(DoubleDiv(time, tw), DoubleOfInt(CanvasWidth)), zoom)

\* pixelToTime with the zoom level left out
pixelToTimeDouble_noZoom(pixel, tw, zoom) ==
  DoubleMul(DoubleDiv(pixel, DoubleOfInt(CanvasWidth)), tw)

\* pixelToTime: (pixel / (canvas.width * zoomLevel)) * timelineWidth
pixelToTimeDouble(pixel, tw, zoom) ==
  DoubleMul(DoubleDiv(pixel, DoubleMul(DoubleOfInt(CanvasWidth), zoom)), tw)

\* the snapshots: zoom at the lower clamp, the initial level or the upper
\* clamp; the timeline duration at the floor or that of a clip of 280 s
InitRoundTrip ==
  /\ audioTracks = <<>>
  /\ selectedTrackId = Null
  /\ isDragging = FALSE
  /\ dragTrackId = Null
  /\ scrollX = Zero
  /\ maxScrollX = Zero
  /\ timelineWidth \in {Int2Num(TimelineFloor),
                       Int2Num(LongFileSamples \div ContextSampleRate + TimelineMargin)}
  /\ zoomLevel \in {MinZoom, One, MaxZoom}
  /\ trackIndexResult = Undefined
  /\ now = 0
  /\ lastOp = "init"
  /\ settings = getDefaultSettings
  /\ syncedTracks = <<>>
  /\ mixedBuffer = NoBuffer
  /\ audioBuffer = NoBuffer
  /\ arrayBuffer = <<>>
  /\ visualizationData = <<>>
  /\ conversion = NoConversion
  /\ NoExportRun

\* timeToPixel(pixelToTime(pixel)) on the snapshot
convertPixel(pixel) ==
  /\ lastOp = "init"
  /\ conversion' =
       [of |-> "pixel",
        input |-> DoubleOfInt(pixel),
        output |-> timeToPixelDouble(
                     pixelToTimeDouble(DoubleOfInt(pixel), DoubleOf(timelineWidth), DoubleOf(zoomLevel)),
                     DoubleOf(timelineWidth), DoubleOf(zoomLevel))]
  /\ lastOp' = "convert"
  /\ UNCHANGED <<mixerVars, now, videoDuration, runVars, liveVars, settings, syncedTracks, mixedBuffer, exportVars>>

\* pixelToTime(timeToPixel(time)) on the snapshot
convertTime(time) ==
  /\ lastOp = "init"
  /\ conversion' =
       [of |-> "time",
        input |-> DoubleOfInt(time),
        output |-> pixelToTimeDouble(
                     timeToPixelDouble(DoubleOfInt(time), DoubleOf(timelineWidth), DoubleOf(zoomLevel)),
                     DoubleOf(timelineWidth), DoubleOf(zoomLevel))]
  /\ lastOp' = "convert"
  /\ UNCHANGED <<mixerVars, now, videoDuration, runVars, liveVars, settings, syncedTracks, mixedBuffer, exportVars>>

NextRoundTrip ==
  \/ \E pixel \in 0..MaxPixel : convertPixel(pixel)
  \/ \E time \in 0..MaxPixel : convertTime(time)

SpecRoundTrip == InitRoundTrip /\ [][NextRoundTrip]_vars

\* C18 as stated: for a fixed snapshot of zoom level, canvas width and
\* timeline duration, timeToPixel(pixelToTime(p)) = p for every pixel p and
\* pixelToTime(timeToPixel(t)) = t for every time t.
C18_ExactInverses ==
  (lastOp = "convert") => conversion.output = conversion.input

\* C18, amended: timeToPixel and pixelToTime are inverses up to the rounding
\* of the six floating-point operations of a round trip: the result is
\* within 6 units in the last place of the argument.
C18_InversesWithinRounding ==
  LET \* |x - y| is at most count units in the last place of x
      WithinUlps(x, y, count) ==
        IF x = DoubleZero \/ y = DoubleZero THEN x = y
        ELSE LET low == IF x.exponent < y.exponent THEN x.exponent ELSE y.exponent
                 xm == IF x.exponent = low THEN x.mantissa ELSE BigDouble(x.mantissa)
                 ym == IF y.exponent = low THEN y.mantissa ELSE BigDouble(y.mantissa)
                 units == IF x.exponent = low THEN count ELSE 2 * count
                 gap == IF BigLess(xm, ym) THEN BigSub(ym, xm) ELSE BigSub(xm, ym)
             IN  /\ x.exponent - y.exponent \in {-1, 0, 1}
                 /\ ~BigLess(BigOfInt(units), gap)
  IN  (lastOp = "convert") => WithinUlps(conversion.input, conversion.output, 6)

\* pixel 21 at zoom 1 and duration 300 comes back as another double
C18_Witness ==
  /\ lastOp = "convert"
  /\ zoomLevel = One
  /\ timelineWidth = Int2Num(TimelineFloor)
  /\ conversion.of = "pixel"
  /\ conversion.input = DoubleOfInt(21)
  /\ conversion.output # conversion.input

----------------------------------------------------------------------------
(* An export while the timeline is edited *)

\* number of timelines, after the first, that the mixer holds during an export
MaxMutations == 2

\* the clip object the loop of prepareAudioTracks waits for: the element of
\* the live array at exportCurrent.index, or, once a splice took the object
\* out of the array, the object as it was then
CurrentClip ==
  IF exportCurrent.index # 0 THEN audioTracks[exportCurrent.index] ELSE exportCurrent.clip

\* where the clip object of the loop is after audioTracks.splice(index, 1, ...)
\* put inserted elements in the place of the element at index
AfterSplice(index, inserted) ==
  IF exportCurrent.index = 0 \/ index > exportCurrent.index THEN exportCurrent
  ELSE IF index < exportCurrent.index
  THEN [exportCurrent EXCEPT !.index = @ + inserted - 1]
  ELSE [index |-> 0, clip |-> audioTracks[index]]

\* an event of the mixer between two steps of a running export: the loop
\* keeps its array and its clip object, which are the mixer's own
DuringExport(current) ==
  /\ exportPc = "await"
  /\ Cardinality(timelineHistory \cup {audioTracks'}) <= MaxMutations + 1
  /\ timelineHistory' = timelineHistory \cup {audioTracks'}
  /\ exportCurrent' = current

\* generateVideoWithCurrentAudio up to the first await of prepareAudioTracks:
\* the loop takes the first element of the mixer's array and starts its fetch
generateVideoWithCurrentAudio ==
  /\ exportPc = "idle"
  /\ Len(audioTracks) # 0
  /\ exportPc' = "await"
  /\ exportIndex' = 1
  /\ exportCurrent' = [index |-> 1, clip |-> <<>>]
  /\ exportLog' = <<>>
  /\ timelineHistory' = {audioTracks}
  /\ syncedTracks' = <<>>
  /\ lastOp' = "start"
  /\ UNCHANGED <<mixerVars, now, settings, mixedBuffer, exportVars, conversion,
                 videoDuration, jobs, cancelResult>>

\* prepareClip with the tracks prepared so far mixed after every clip
prepareClip_mixEarly(ok) ==
  /\ exportPc = "await"
  /\ exportLog' = Append(exportLog, [clip |-> CurrentClip, ok |-> ok])
  /\ syncedTracks' = IF ok THEN Append(syncedTracks, SyncedTrack(CurrentClip, settings))
                     ELSE syncedTracks
  /\ mixedBuffer' = mixAudioTracks(syncedTracks', settings)
  /\ IF exportIndex < Len(audioTracks)
     THEN /\ exportIndex' = exportIndex + 1
          /\ exportCurrent' = [index |-> exportIndex + 1, clip |-> <<>>]
          /\ exportPc' = "await"
          /\ UNCHANGED videoDuration
     ELSE /\ exportCurrent' = NoClip
          /\ UNCHANGED exportIndex
          /\ IF mixedBuffer'.status = "ok"
             THEN /\ videoDuration' = calculateVideoDuration(audioTracks, settings)
                  /\ exportPc' = "done"
             ELSE /\ exportPc' = "failed"
                  /\ UNCHANGED videoDuration
  /\ lastOp' = "prepared"
  /\ UNCHANGED <<mixerVars, now, settings, exportVars, conversion, timelineHistory,
                 jobs, cancelResult>>

\* the continuation of prepareAudioTracks when the fetch and decode of the
\* awaited clip end, well (ok) or not: the clip is pushed with the start and
\* end its object has now, or skipped; then the loop takes the next element
\* of the array and starts its fetch, or, at the end of the array,
\* generateVideoWithAudio mixes the pushed tracks and calculates the
\* duration of the video from the array (no await lies between these)
prepareClip(ok) ==
  /\ exportPc = "await"
  /\ exportLog' = Append(exportLog, [clip |-> CurrentClip, ok |-> ok])
  /\ syncedTracks' = IF ok THEN Append(syncedTracks, SyncedTrack(CurrentClip, settings))
                     ELSE syncedTracks
  /\ IF exportIndex < Len(audioTracks)
     THEN /\ exportIndex' = exportIndex + 1
          /\ exportCurrent' = [index |-> exportIndex + 1, clip |-> <<>>]
          /\ exportPc' = "await"
          /\ UNCHANGED <<mixedBuffer, videoDuration>>
     ELSE /\ exportCurrent' = NoClip
          /\ UNCHANGED exportIndex
          /\ mixedBuffer' = mixAudioTracks(syncedTracks', settings)
          /\ IF mixedBuffer'.status = "ok"
             THEN /\ videoDuration' = calculateVideoDuration(audioTracks, settings)
                  /\ exportPc' = "done"
             ELSE /\ exportPc' = "failed"
                  /\ UNCHANGED videoDuration
  /\ lastOp' = "prepared"
  /\ UNCHANGED <<mixerVars, now, settings, exportVars, conversion, timelineHistory,
                 jobs, cancelResult>>

\* the user loads files, starts the export and goes on editing while the
\* sources are fetched and decoded (clearProject, which gives the mixer a new
\* array, is left out)
NextAsync ==
  \/ exportPc = "idle" /\ Tick /\ UNCHANGED liveVars
  \/ exportPc = "idle" /\ (\E file \in Files : loadAudioFile(file)) /\ UNCHANGED liveVars
  \/ generateVideoWithCurrentAudio
  \/ \E ok \in BOOLEAN : prepareClip(ok)
  \/ Tick /\ DuringExport(exportCurrent)
  \/ \E file \in Files : loadAudioFile(file) /\ DuringExport(exportCurrent)
  \/ \E hit \in Hits : handleRightClick(hit) /\ DuringExport(exportCurrent)
  \/ \E hit \in Hits : handleMouseDown(hit) /\ DuringExport(exportCurrent)
  \/ \E deltaX \in DeltaXs : handleMouseMove(deltaX) /\ DuringExport(exportCurrent)
  \/ handleMouseUp /\ DuringExport(exportCurrent)
  \/ contextMenuDelete /\ DuringExport(AfterSplice(SelectedIndex, 0))
  \/ contextMenuDuplicate /\ DuringExport(exportCurrent)
  \/ contextMenuSplit /\ DuringExport(AfterSplice(SelectedIndex, 2))

SpecAsync == Init /\ [][NextAsync]_vars

\* C25: the values an export used are those of the timeline at one instant:
\* some timeline the mixer held during the export has, for every track of
\* the mix, a clip with the start, end, gain, duration and source the mix
\* used, in the order of the mix, and has the duration the video was given.
C25_ExportFromOneSnapshot ==
  exportPc = "done" =>
    \E T \in timelineHistory : \E ok \in SUBSET (1..Len(T)) :
      LET Used(tracks) ==
            [k \in 1..Len(tracks) |->
               <<tracks[k].startTime, tracks[k].endTime, tracks[k].volume,
                 tracks[k].audioClip.duration, tracks[k].audioBuffer>>]
      IN  /\ Used(syncedTracks) = Used(prepareAudioTracks(T, ok, settings))
          /\ videoDuration = calculateVideoDuration(T, settings)

\* C26: the master is written only in the step that ends the loop of
\* prepareAudioTracks, when the fetch and decode of every clip the loop took
\* has ended and the array has no further element; the mix is then the one
\* of exactly the clips whose fetch and decode ended well, in that order.
C26_MixAfterAllDecodes ==
  [][mixedBuffer' # mixedBuffer =>
       LET decoded == SelectSeq(exportLog', LAMBDA e : e.ok)
       IN  /\ exportPc = "await"
           /\ exportPc' \in {"done", "failed"}
           /\ Len(exportLog') = exportIndex'
           /\ exportIndex' >= Len(audioTracks')
           /\ syncedTracks' = [k \in 1..Len(decoded) |-> SyncedTrack(decoded[k].clip, settings)]
           /\ mixedBuffer' = mixAudioTracks(syncedTracks', settings)]_vars

\* an export of two clips that ended with a mix of the second clip alone,
\* the source of the first having failed, after the timeline was edited
C26_Witness ==
  /\ exportPc = "done"
  /\ Len(exportLog) = 2
  /\ ~exportLog[1].ok
  /\ exportLog[2].ok
  /\ Len(syncedTracks) = 1
  /\ Cardinality(timelineHistory) >= 2
  /\ mixedBuffer = mixAudioTracks(syncedTracks, settings)

----------------------------------------------------------------------------
(* VideoExporter: export jobs *)

\* number of calls of exportVideo
MaxJobs == 2

\* exportVideo up to its await of processExport: the job is put into the map
\* as 'pending' and set to 'processing' before the call yields; a job is
\* known by its place in jobs, and settled tells whether the promise of
\* processExport was resolved or rejected
exportVideo ==
  /\ Len(jobs) < MaxJobs
  /\ jobs' = Append(jobs, [status |-> "processing", error |-> "none", hasResult |-> FALSE,
                           endTime |-> Undefined, settled |-> FALSE])
  /\ lastOp' = "exportVideo"
  /\ UNCHANGED <<mixerVars, now, settings, syncedTracks, mixedBuffer, exportVars, conversion,
                 videoDuration, exportPc, exportIndex, exportLog, cancelResult, liveVars>>

\* the continuation of exportVideo after processExport: resolved (ok), the
\* job is set to 'completed' with its result; rejected, to 'failed' with the
\* error; both set endTime
processExportSettles(jobId, ok) ==
  /\ jobId \in 1..Len(jobs)
  /\ ~jobs[jobId].settled
  /\ jobs' = [jobs EXCEPT ![jobId] =
                IF ok
                THEN [@ EXCEPT !.status = "completed", !.hasResult = TRUE,
                               !.endTime = now, !.settled = TRUE]
                ELSE [@ EXCEPT !.status = "failed", !.error = "export failed",
                               !.endTime = now, !.settled = TRUE]]
  /\ lastOp' = "settle"
  /\ UNCHANGED <<mixerVars, now, settings, syncedTracks, mixedBuffer, exportVars, conversion,
                 videoDuration, exportPc, exportIndex, exportLog, cancelResult, liveVars>>

cancelJob(jobId) ==
  /\ IF jobId \in 1..Len(jobs) /\ jobs[jobId].status = "processing"
     THEN /\ jobs' = [jobs EXCEPT ![jobId] =
                        [@ EXCEPT !.status = "failed", !.error = "Job cancelled by user",
                                  !.endTime = now]]
          /\ cancelResult' = <<TRUE>>
     ELSE /\ cancelResult' = <<FALSE>>
          /\ UNCHANGED jobs
  /\ lastOp' = "cancel"
  /\ UNCHANGED <<mixerVars, now, settings, syncedTracks, mixedBuffer, exportVars, conversion,
                 videoDuration, exportPc, exportIndex, exportLog, liveVars>>

NextJobs ==
  \/ Tick /\ UNCHANGED liveVars
  \/ exportVideo
  \/ \E jobId \in 1..MaxJobs, ok \in BOOLEAN : processExportSettles(jobId, ok)
  \/ \E jobId \in 1..MaxJobs : cancelJob(jobId)

SpecJobs == Init /\ [][NextJobs]_vars

\* C30: the status of a job changes only from 'pending' to 'processing' and
\* from 'processing' to 'completed' or 'failed'; the status, error and
\* endTime of a 'completed' or 'failed' job never change again, also when
\* cancelJob made it 'failed'; cancelJob returns true only for a job that
\* was 'processing' and changes no other job, and changes nothing when it
\* returns false.
C30_JobStatusMonotone ==
  [][/\ \A j \in 1..Len(jobs) :
          /\ j \in 1..Len(jobs')
          /\ jobs'[j].status # jobs[j].status =>
               <<jobs[j].status, jobs'[j].status>>
                 \in {<<"pending", "processing">>, <<"processing", "completed">>,
                      <<"processing", "failed">>}
          /\ jobs[j].status \in {"completed", "failed"} =>
               /\ jobs'[j].status = jobs[j].status
               /\ jobs'[j].error = jobs[j].error
               /\ jobs'[j].endTime = jobs[j].endTime
     /\ lastOp' = "cancel" =>
          IF cancelResult' = <<TRUE>>
          THEN \E j \in 1..Len(jobs) :
                 /\ jobs[j].status = "processing"
                 /\ jobs'[j].status = "failed"
                 /\ \A i \in 1..Len(jobs) : i # j => jobs'[i] = jobs[i]
          ELSE jobs' = jobs]_vars

====
